---- MODULE Spec2Model ----
(***************************************************************************)
(* Message-lifecycle core of the IoT Hub low-level client                  *)
(* (src/firmware/iothub_client_ll.c): the waitingToSend queue, the timeout *)
(* scanner DoTimeouts, the completion dispatcher SendComplete and the      *)
(* destroy-time drain.                                                     *)
(*                                                                         *)
(* The client is single threaded: every public function runs to its end    *)
(* before the next one starts.  IoTHubClient_LL_DoWork is modelled as the  *)
(* sequence of its two calls (DoTimeouts, then the transport's _DoWork);   *)
(* while the transport's _DoWork runs (pc = "transport") only the          *)
(* transport acts: it detaches entries from the head of waitingToSend and  *)
(* calls back IoTHubClient_LL_SendComplete.                                *)
(***************************************************************************)
EXTENDS Integers, Sequences, FiniteSets, TLC

VARIABLES
    handle,                 \* "live" | "destroyed": the IOTHUB_CLIENT_LL_HANDLE
    waitingToSend,          \* handleData->waitingToSend, head first
    inProgress,             \* entries the transport has detached and not yet reported
    currentMessageTimeout,  \* handleData->currentMessageTimeout
    tick,                   \* the reading tickcounter_get_current_ms would give
    accepted,               \* number of SendEventAsync calls that returned OK
    sent,                   \* history: for the n-th accepted call its callback, its
                            \* context and when it is due: 0 (never) when the timeout
                            \* in force was 0, else the tick of the call plus that
                            \* timeout, as an integer
    events,                 \* every unlinking of an entry, callback invocation and
                            \* IoTHubMessage_Destroy, in order
    pc,                     \* "idle" | "transport" (inside IoTHubTransport_DoWork)
    call,                   \* the last call made: its name, arguments and return value
    transportHandle,        \* handleData->transportHandle
    isSharedTransport,      \* handleData->isSharedTransport
    deviceHandle,           \* handleData->deviceHandle
    messageCallback,        \* handleData->messageCallback
    messageUserContextCallback, \* handleData->messageUserContextCallback
    lastMessageReceiveTime, \* handleData->lastMessageReceiveTime
    lowerLayer,             \* every call of tickcounter_create, tickcounter_destroy and
                            \* of the transport's _Create, _Register, _Unregister and
                            \* _Destroy, in order
    wallClock,              \* the calendar time get_time would give
    delivered               \* history: <<>> until IoTHubClient_LL_MessageCallback is
                            \* called on the instance, then the calendar time of the
                            \* most recent call and whether get_time could give it

vars == <<handle, waitingToSend, inProgress, currentMessageTimeout, tick,
          accepted, sent, events, pc, call, transportHandle, isSharedTransport,
          deviceHandle, messageCallback, messageUserContextCallback,
          lastMessageReceiveTime, lowerLayer, wallClock, delivered>>

\* the fields that bind the instance to its transport
transportFields == <<transportHandle, isSharedTransport, deviceHandle>>

\* the fields of the inbound path, with its clock and its history
inboundFields == <<messageCallback, messageUserContextCallback,
                   lastMessageReceiveTime, wallClock, delivered>>

\* Number of messages the application sends successfully in one run.
MaxMessages == 2

\* The same, in the runs that only send, wait and scan (ScanSpec).
ScanMessages == 3

\* The same, in the runs that also make rejected and failing calls (ApiSpec).
ApiMessages == 1

\* uint64_t arithmetic (ms_timesOutAfter, currentMessageTimeout, nowTick) is
\* modelled at a reduced width: values are 0 .. TickModulus-1 and addition wraps.
TickModulus == 3

Uint64 == 0 .. (TickModulus - 1)

NULL == "NULL"

\* The context pointers an application passes: NULL or one distinct per send.
UserContext(n) == "ctx" \o ToString(n)

\* ---------------------------------------------------------------- helpers

\* the record pushed on the events log for one callback invocation
CallbackEvent(entry, result) ==
    [type |-> "callback", entry |-> entry.messageHandle,
     result |-> result, context |-> entry.context]

\* if (callback != NULL) callback(result, context);
InvokeCallback(entry, result) ==
    IF entry.callback # NULL THEN <<CallbackEvent(entry, result)>> ELSE <<>>

\* IoTHubMessage_Destroy(entry->messageHandle); free(entry);
IoTHubMessage_Destroy(entry) ==
    <<[type |-> "IoTHubMessage_Destroy", entry |-> entry.messageHandle,
       result |-> "-", context |-> NULL]>>

\* the record pushed on the events log when an entry is unlinked from its list
\* (DList_RemoveEntryList, DList_RemoveHeadList)
DList_Unlinked(entry) ==
    <<[type |-> "DList_Remove", entry |-> entry.messageHandle,
       result |-> "-", context |-> NULL]>>

\* DList_RemoveEntryList: the list without its i-th element
DList_RemoveEntryList(list, i) ==
    SubSeq(list, 1, i - 1) \o SubSeq(list, i + 1, Len(list))

\* DList_InsertTailList with the entry linked behind the list head instead
DList_InsertTailList_AtHead(list, entry) == <<entry>> \o list

\* DList_InsertTailList
DList_InsertTailList(list, entry) == Append(list, entry)

\* tickcounter_get_current_ms: 0 and the reading, or non-zero (failure)
tickcounter_get_current_ms(clockOk) ==
    IF clockOk THEN [rc |-> 0, current_ms |-> tick] ELSE [rc |-> 1, current_ms |-> 0]

\* unsigned addition of two uint64_t values
AddUint64(a, b) == (a + b) % TickModulus

\* ----------------------------------------------------------- IoTHubClient_LL_Create

\* #define INDEFINITE_TIME ((time_t)(-1))
INDEFINITE_TIME == -1

\* one call into the tick counter or the transport: function, argument, result
LowerLayerCall(fn, arg, ret) == [fn |-> fn, arg |-> arg, ret |-> ret]

\* the calls of fn in a piece of the log
CallsOf(log, fn) == {i \in 1 .. Len(log) : log[i].fn = fn}

\* What can go wrong in IoTHubClient_LL_Create: "config" is a NULL config or a
\* NULL protocol field, the other names are the call that returns NULL.
CreateFaults ==
    {"none", "config", "malloc", "tickcounter_create", "IoTHubTransport_Create",
     "IoTHubTransport_Register"}

\* the fields a successful create sets, without the default timeout
Create_Initialize_NoTimeout(transport, device, shared, calls) ==
    /\ waitingToSend' = <<>>
    /\ messageCallback' = NULL
    /\ messageUserContextCallback' = NULL
    /\ lastMessageReceiveTime' = INDEFINITE_TIME
    /\ transportHandle' = transport
    /\ deviceHandle' = device
    /\ isSharedTransport' = shared
    /\ UNCHANGED currentMessageTimeout
    /\ lowerLayer' = lowerLayer \o calls
    /\ handle' = "live"

\* the fields a successful create sets, whatever malloc left in them
Create_Initialize(transport, device, shared, calls) ==
    /\ waitingToSend' = <<>>
    /\ messageCallback' = NULL
    /\ messageUserContextCallback' = NULL
    /\ lastMessageReceiveTime' = INDEFINITE_TIME
    /\ transportHandle' = transport
    /\ deviceHandle' = device
    /\ isSharedTransport' = shared
    /\ currentMessageTimeout' = 0
    /\ lowerLayer' = lowerLayer \o calls
    /\ handle' = "live"

\* create returns NULL after these calls; handleData, if allocated, is freed
Create_Fail(calls) ==
    /\ handle' = NULL
    /\ lowerLayer' = lowerLayer \o calls
    /\ UNCHANGED <<waitingToSend, currentMessageTimeout, transportFields,
                   messageCallback, messageUserContextCallback, lastMessageReceiveTime>>

\* the calls IoTHubClient_LL_Create makes when _Register returns NULL, with the
\* transport it created left alive
Create_RegisterFailed_LeaksTransport ==
    <<LowerLayerCall("tickcounter_create", "-", "tickCounter"),
      LowerLayerCall("IoTHubTransport_Create", "lowerLayerConfig", "ownTransport"),
      LowerLayerCall("IoTHubTransport_Register", "ownTransport", NULL),
      LowerLayerCall("tickcounter_destroy", "tickCounter", "-")>>

\* the calls IoTHubClient_LL_Create makes when _Register returns NULL
Create_RegisterFailed ==
    <<LowerLayerCall("tickcounter_create", "-", "tickCounter"),
      LowerLayerCall("IoTHubTransport_Create", "lowerLayerConfig", "ownTransport"),
      LowerLayerCall("IoTHubTransport_Register", "ownTransport", NULL),
      LowerLayerCall("IoTHubTransport_Destroy", "ownTransport", "-"),
      LowerLayerCall("tickcounter_destroy", "tickCounter", "-")>>

IoTHubClient_LL_Create(fault) ==
    /\ pc = "idle"
    /\ handle = "none"
    /\ call' = [op |-> "Create", fault |-> fault,
                ret |-> IF fault = "none" THEN "handle" ELSE NULL]
    /\ IF fault \in {"config", "malloc"}
       THEN Create_Fail(<<>>)
       ELSE IF fault = "tickcounter_create"
       THEN Create_Fail(<<LowerLayerCall("tickcounter_create", "-", NULL)>>)
       ELSE IF fault = "IoTHubTransport_Create"
       THEN Create_Fail(<<LowerLayerCall("tickcounter_create", "-", "tickCounter"),
                          LowerLayerCall("IoTHubTransport_Create", "lowerLayerConfig", NULL),
                          LowerLayerCall("tickcounter_destroy", "tickCounter", "-")>>)
       ELSE IF fault = "IoTHubTransport_Register"
       THEN Create_Fail(Create_RegisterFailed)
       ELSE Create_Initialize(
                "ownTransport", "deviceHandle", FALSE,
                <<LowerLayerCall("tickcounter_create", "-", "tickCounter"),
                  LowerLayerCall("IoTHubTransport_Create", "lowerLayerConfig", "ownTransport"),
                  LowerLayerCall("IoTHubTransport_Register", "ownTransport", "deviceHandle")>>)
    /\ UNCHANGED <<inProgress, tick, accepted, sent, events, pc, wallClock, delivered>>

\* ---------------------------------------------- IoTHubClient_LL_CreateWithTransport

\* What can go wrong in IoTHubClient_LL_CreateWithTransport: "config" is a NULL
\* config, protocol or transportHandle field.
CreateWithTransportFaults ==
    {"none", "config", "malloc", "tickcounter_create", "IoTHubTransport_Register"}

\* the flag a successful IoTHubClient_LL_CreateWithTransport stores, as create
\* stores it
CreateWithTransport_Shared_AsOwned == FALSE

\* handleData->isSharedTransport = true;
CreateWithTransport_Shared == TRUE

\* The caller's transport is config->transportHandle = "sharedTransport".
IoTHubClient_LL_CreateWithTransport(fault) ==
    /\ pc = "idle"
    /\ handle = "none"
    /\ call' = [op |-> "CreateWithTransport", fault |-> fault,
                ret |-> IF fault = "none" THEN "handle" ELSE NULL]
    /\ IF fault \in {"config", "malloc"}
       THEN Create_Fail(<<>>)
       ELSE IF fault = "tickcounter_create"
       THEN Create_Fail(<<LowerLayerCall("tickcounter_create", "-", NULL)>>)
       ELSE IF fault = "IoTHubTransport_Register"
       THEN Create_Fail(<<LowerLayerCall("tickcounter_create", "-", "tickCounter"),
                          LowerLayerCall("IoTHubTransport_Register", "sharedTransport", NULL),
                          LowerLayerCall("tickcounter_destroy", "tickCounter", "-")>>)
       ELSE Create_Initialize(
                "sharedTransport", "deviceHandle", CreateWithTransport_Shared,
                <<LowerLayerCall("tickcounter_create", "-", "tickCounter"),
                  LowerLayerCall("IoTHubTransport_Register", "sharedTransport",
                                 "deviceHandle")>>)
    /\ UNCHANGED <<inProgress, tick, accepted, sent, events, pc, wallClock, delivered>>

\* --------------------------------------------------- IoTHubClient_LL_SendEventAsync

\* attach_ms_timesOutAfter with the return code of tickcounter_get_current_ms
\* ignored
attach_ms_timesOutAfter_IgnoresClockFailure(clockOk) ==
    IF currentMessageTimeout = 0
    THEN [result |-> 0, ms_timesOutAfter |-> 0, clockReads |-> 0]
    ELSE LET t == tickcounter_get_current_ms(clockOk) IN
         [result |-> 0,
          ms_timesOutAfter |-> AddUint64(t.current_ms, currentMessageTimeout),
          clockReads |-> 1]

\* attach_ms_timesOutAfter: result 0 on success; clockReads counts the calls to
\* tickcounter_get_current_ms.
attach_ms_timesOutAfter(clockOk) ==
    IF currentMessageTimeout = 0
    THEN [result |-> 0, ms_timesOutAfter |-> 0, clockReads |-> 0]
    ELSE LET t == tickcounter_get_current_ms(clockOk) IN
         IF t.rc # 0
         THEN [result |-> 1, ms_timesOutAfter |-> 0, clockReads |-> 1]
         ELSE [result |-> 0,
               ms_timesOutAfter |-> AddUint64(t.current_ms, currentMessageTimeout),
               clockReads |-> 1]

\* the argument check without the test of a context given without callback
SendEventAsync_InvalidArg_NoContextCheck(h, msg, cb, ctx) ==
    \/ h = NULL
    \/ msg = NULL

\* the argument check of IoTHubClient_LL_SendEventAsync
SendEventAsync_InvalidArg(h, msg, cb, ctx) ==
    \/ h = NULL
    \/ msg = NULL
    \/ (cb = NULL /\ ctx # NULL)

\* fault names the one resource that is unavailable during the call, if any:
\* "malloc", "tickcounter", "IoTHubMessage_Clone" or "none".
IoTHubClient_LL_SendEventAsync(h, msg, cb, ctx, fault) ==
    /\ pc = "idle"
    /\ handle = "live"
    /\ LET base == [op |-> "SendEventAsync", iotHubClientHandle |-> h,
                    eventMessageHandle |-> msg, callback |-> cb, context |-> ctx,
                    fault |-> fault]
           fails(ret, reads) ==
               /\ call' = base @@ [ret |-> ret, clockReads |-> reads]
               /\ UNCHANGED <<waitingToSend, accepted, sent>>
       IN
       IF SendEventAsync_InvalidArg(h, msg, cb, ctx)
       THEN fails("IOTHUB_CLIENT_INVALID_ARG", 0)
       ELSE IF fault = "malloc"
       THEN fails("IOTHUB_CLIENT_ERROR", 0)
       ELSE LET a == attach_ms_timesOutAfter(fault # "tickcounter") IN
            IF a.result # 0
            THEN fails("IOTHUB_CLIENT_ERROR", a.clockReads)
            ELSE IF fault = "IoTHubMessage_Clone"
            THEN fails("IOTHUB_CLIENT_ERROR", a.clockReads)
            ELSE LET newEntry == [messageHandle |-> accepted + 1,
                                  callback |-> cb, context |-> ctx,
                                  ms_timesOutAfter |-> a.ms_timesOutAfter]
                 IN
                 /\ waitingToSend' = DList_InsertTailList(waitingToSend, newEntry)
                 /\ accepted' = accepted + 1
                 /\ sent' = Append(sent, [callback |-> cb, context |-> ctx,
                                          due |-> IF currentMessageTimeout = 0 THEN 0
                                                  ELSE tick + currentMessageTimeout])
                 /\ call' = base @@ [ret |-> "IOTHUB_CLIENT_OK", clockReads |-> a.clockReads]
    /\ UNCHANGED <<handle, inProgress, currentMessageTimeout, tick, events, pc>>
    /\ UNCHANGED <<transportFields, inboundFields, lowerLayer>>

\* ---------------------------------------------------------- IoTHubClient_LL_SetOption

\* the test for the option handled by the client, never true
SetOption_IsMessageTimeout_Never(optionName) == FALSE

\* strcmp(optionName, "messageTimeout") == 0
SetOption_IsMessageTimeout(optionName) == optionName = "messageTimeout"

\* IoTHubClient_LL_SetOption applying a new messageTimeout to the entries that
\* are queued already
IoTHubClient_LL_SetOption_RetimesQueue(h, optionName, value, transportRet) ==
    /\ pc = "idle"
    /\ handle = "live"
    /\ h # NULL /\ optionName = "messageTimeout" /\ value # <<>>
    /\ currentMessageTimeout' = value[1]
    /\ waitingToSend' =
          [i \in 1 .. Len(waitingToSend) |->
              [waitingToSend[i] EXCEPT
                  !.ms_timesOutAfter = IF value[1] = 0 THEN 0
                                       ELSE AddUint64(tick, value[1])]]
    /\ call' = [op |-> "SetOption", iotHubClientHandle |-> h, optionName |-> optionName,
                value |-> value, ret |-> "IOTHUB_CLIENT_OK", transportCalls |-> 0,
                transportReturned |-> "-"]
    /\ UNCHANGED <<handle, inProgress, tick, accepted, sent, events, pc>>
    /\ UNCHANGED <<transportFields, inboundFields, lowerLayer>>

\* value is the pointer argument: <<>> is NULL, <<v>> points to the uint64_t v.
\* transportRet is what the transport's _SetOption returns when it is called.
IoTHubClient_LL_SetOption(h, optionName, value, transportRet) ==
    /\ pc = "idle"
    /\ handle = "live"
    /\ LET base == [op |-> "SetOption", iotHubClientHandle |-> h,
                    optionName |-> optionName, value |-> value]
       IN
       IF h = NULL \/ optionName = NULL \/ value = <<>>
       THEN /\ call' = base @@ [ret |-> "IOTHUB_CLIENT_INVALID_ARG", transportCalls |-> 0,
                                transportReturned |-> "-"]
            /\ UNCHANGED currentMessageTimeout
       ELSE IF SetOption_IsMessageTimeout(optionName)
       THEN /\ currentMessageTimeout' = value[1]
            /\ call' = base @@ [ret |-> "IOTHUB_CLIENT_OK", transportCalls |-> 0,
                                transportReturned |-> "-"]
       ELSE /\ call' = base @@ [ret |-> transportRet, transportCalls |-> 1,
                                transportReturned |-> transportRet]
            /\ UNCHANGED currentMessageTimeout
    /\ UNCHANGED <<handle, waitingToSend, inProgress, tick, accepted, sent, events, pc>>
    /\ UNCHANGED <<transportFields, inboundFields, lowerLayer>>

\* ------------------------------------------------------------------ DoTimeouts

\* the test of the scan without the check for 0 (do not timeout)
IsTimedOut_IgnoresZero(entry, nowTick) == entry.ms_timesOutAfter < nowTick

\* the test of the scan true only from the second millisecond after the expiry
IsTimedOut_OneLate(entry, nowTick) ==
    entry.ms_timesOutAfter # 0 /\ entry.ms_timesOutAfter + 1 < nowTick

\* the test of the scan: (ms_timesOutAfter != 0) && (ms_timesOutAfter < nowTick)
IsTimedOut(entry, nowTick) ==
    entry.ms_timesOutAfter # 0 /\ entry.ms_timesOutAfter < nowTick

\* the loop of DoTimeouts with the expired entry completed but left in the list
RECURSIVE DoTimeouts_Loop_NoUnlink(_, _, _, _)
DoTimeouts_Loop_NoUnlink(list, i, nowTick, ev) ==
    IF i > Len(list)
    THEN [waitingToSend |-> list, events |-> ev]
    ELSE LET fullEntry == list[i] IN
         IF fullEntry.ms_timesOutAfter # 0 /\ fullEntry.ms_timesOutAfter < nowTick
         THEN DoTimeouts_Loop_NoUnlink(
                  list, i + 1, nowTick,
                  ev \o InvokeCallback(fullEntry, "IOTHUB_CLIENT_CONFIRMATION_MESSAGE_TIMEOUT")
                     \o IoTHubMessage_Destroy(fullEntry))
         ELSE DoTimeouts_Loop_NoUnlink(list, i + 1, nowTick, ev)

\* the loop of DoTimeouts continuing after a removal from the successor of
\* theNext, so that the entry behind a removed one is not examined
RECURSIVE DoTimeouts_Loop_SkipsNext(_, _, _, _)
DoTimeouts_Loop_SkipsNext(list, i, nowTick, ev) ==
    IF i > Len(list)
    THEN [waitingToSend |-> list, events |-> ev]
    ELSE LET fullEntry == list[i] IN
         IF fullEntry.ms_timesOutAfter # 0 /\ fullEntry.ms_timesOutAfter < nowTick
         THEN DoTimeouts_Loop_SkipsNext(
                  DList_RemoveEntryList(list, i), i + 1, nowTick,
                  ev \o DList_Unlinked(fullEntry)
                     \o InvokeCallback(fullEntry, "IOTHUB_CLIENT_CONFIRMATION_MESSAGE_TIMEOUT")
                     \o IoTHubMessage_Destroy(fullEntry))
         ELSE DoTimeouts_Loop_SkipsNext(list, i + 1, nowTick, ev)

\* The while loop of DoTimeouts: i is the position of currentItemInWaitingToSend
\* in list; ev is the events log so far.  Removing the i-th entry puts its
\* successor (theNext) at position i.
RECURSIVE DoTimeouts_Loop(_, _, _, _)
DoTimeouts_Loop(list, i, nowTick, ev) ==
    IF i > Len(list)
    THEN [waitingToSend |-> list, events |-> ev]
    ELSE LET fullEntry == list[i] IN
         IF IsTimedOut(fullEntry, nowTick)
         THEN DoTimeouts_Loop(
                  DList_RemoveEntryList(list, i), i, nowTick,
                  ev \o DList_Unlinked(fullEntry)
                     \o InvokeCallback(fullEntry, "IOTHUB_CLIENT_CONFIRMATION_MESSAGE_TIMEOUT")
                     \o IoTHubMessage_Destroy(fullEntry))
         ELSE DoTimeouts_Loop(list, i + 1, nowTick, ev)

\* DoTimeouts scanning with the last reading when the tick counter cannot be read
DoTimeouts_ScansOnClockFailure(clockOk) ==
    DoTimeouts_Loop(waitingToSend, 1, tick, events)

\* DoTimeouts walking the entries the transport holds after those of the queue
DoTimeouts_AlsoDetached(clockOk) ==
    LET t == tickcounter_get_current_ms(clockOk) IN
    IF t.rc # 0
    THEN [waitingToSend |-> waitingToSend, events |-> events]
    ELSE LET queued == DoTimeouts_Loop(waitingToSend, 1, t.current_ms, events) IN
         [waitingToSend |-> queued.waitingToSend,
          events |-> DoTimeouts_Loop(inProgress, 1, t.current_ms, queued.events).events]

\* DoTimeouts(handleData): nothing when the tick counter cannot be read
DoTimeouts(clockOk) ==
    LET t == tickcounter_get_current_ms(clockOk) IN
    IF t.rc # 0
    THEN [waitingToSend |-> waitingToSend, events |-> events]
    ELSE DoTimeouts_Loop(waitingToSend, 1, t.current_ms, events)

\* ------------------------------------------------------------- IoTHubClient_LL_DoWork

\* IoTHubClient_LL_DoWork calling the transport's _DoWork without DoTimeouts
IoTHubClient_LL_DoWork_NoScan(h, clockOk) ==
    /\ pc = "idle"
    /\ handle = "live"
    /\ call' = [op |-> "DoWork", iotHubClientHandle |-> h, clockOk |-> clockOk]
    /\ pc' = IF h = NULL THEN pc ELSE "transport"
    /\ UNCHANGED <<handle, waitingToSend, inProgress, currentMessageTimeout, tick,
                   accepted, sent, events, transportFields, inboundFields, lowerLayer>>

\* DoTimeouts, then the call of the transport's _DoWork, which runs until
\* Transport_DoWork_Return.
IoTHubClient_LL_DoWork(h, clockOk) ==
    /\ pc = "idle"
    /\ handle = "live"
    /\ IF h = NULL
       THEN /\ call' = [op |-> "DoWork", iotHubClientHandle |-> h, clockOk |-> clockOk]
            /\ UNCHANGED <<waitingToSend, events, pc>>
       ELSE LET r == DoTimeouts(clockOk) IN
            /\ waitingToSend' = r.waitingToSend
            /\ events' = r.events
            /\ pc' = "transport"
            /\ call' = [op |-> "DoWork", iotHubClientHandle |-> h, clockOk |-> clockOk]
    /\ UNCHANGED <<handle, inProgress, currentMessageTimeout, tick, accepted, sent>>
    /\ UNCHANGED <<transportFields, inboundFields, lowerLayer>>

\* ------------------------------------------------------- IoTHubClient_LL_SendComplete

\* resultToBeCalled without the test of the batch result
SendComplete_Result_AlwaysOk(result) == "IOTHUB_CLIENT_CONFIRMATION_OK"

\* resultToBeCalled
SendComplete_Result(result) ==
    IF result = "IOTHUB_BATCHSTATE_SUCCESS"
    THEN "IOTHUB_CLIENT_CONFIRMATION_OK"
    ELSE "IOTHUB_CLIENT_CONFIRMATION_ERROR"

\* the loop of IoTHubClient_LL_SendComplete with the message released before
\* the callback is invoked
RECURSIVE SendComplete_Loop_ReleasesFirst(_, _, _)
SendComplete_Loop_ReleasesFirst(completed, resultToBeCalled, ev) ==
    IF completed = <<>>
    THEN [completed |-> completed, events |-> ev]
    ELSE LET messageList == Head(completed) IN
         SendComplete_Loop_ReleasesFirst(
             Tail(completed), resultToBeCalled,
             ev \o DList_Unlinked(messageList)
                \o IoTHubMessage_Destroy(messageList)
                \o InvokeCallback(messageList, resultToBeCalled))

\* while ((oldest = DList_RemoveHeadList(completed)) != completed) ...
RECURSIVE SendComplete_Loop(_, _, _)
SendComplete_Loop(completed, resultToBeCalled, ev) ==
    IF completed = <<>>
    THEN [completed |-> completed, events |-> ev]
    ELSE LET messageList == Head(completed) IN
         SendComplete_Loop(Tail(completed), resultToBeCalled,
                           ev \o DList_Unlinked(messageList)
                              \o InvokeCallback(messageList, resultToBeCalled)
                              \o IoTHubMessage_Destroy(messageList))

\* the argument check of IoTHubClient_LL_SendComplete without the test of handle
SendComplete_InvalidArg_NoHandleCheck(h, completedIsNull) == completedIsNull

\* the argument check of IoTHubClient_LL_SendComplete
SendComplete_InvalidArg(h, completedIsNull) == h = NULL \/ completedIsNull

\* The transport calls IoTHubClient_LL_SendComplete from its _DoWork.  completed is
\* NULL or a list the transport built from the n entries it detached first
\* (n = 0: an empty list).  What the call leaves in the list stays with the
\* transport.
IoTHubClient_LL_SendComplete(h, completedIsNull, n, result) ==
    /\ pc = "transport"
    /\ n <= Len(inProgress)
    /\ completedIsNull => n = 0
    /\ LET completed == SubSeq(inProgress, 1, n)
           rest == SubSeq(inProgress, n + 1, Len(inProgress))
           base == [op |-> "SendComplete", handle |-> h,
                    completed |-> IF completedIsNull THEN NULL ELSE "list",
                    n |-> n, result |-> result]
       IN
       IF SendComplete_InvalidArg(h, completedIsNull)
       THEN /\ call' = base
            /\ UNCHANGED <<inProgress, events>>
       ELSE LET r == SendComplete_Loop(completed, SendComplete_Result(result), events) IN
            /\ inProgress' = r.completed \o rest
            /\ events' = r.events
            /\ call' = base
    /\ UNCHANGED <<handle, waitingToSend, currentMessageTimeout, tick, accepted, sent, pc>>
    /\ UNCHANGED <<transportFields, inboundFields, lowerLayer>>

\* ------------------------------------------------ IoTHubClient_LL_SetMessageCallback

\* the pair stored after a failed _Subscribe, with the registered pair kept
SetMessageCallback_Stored_KeepsOnFailure(cb, ctx, subscribeRet) ==
    IF cb = NULL THEN <<NULL, NULL>>
    ELSE IF subscribeRet = 0 THEN <<cb, ctx>>
    ELSE <<messageCallback, messageUserContextCallback>>

\* the callback and context IoTHubClient_LL_SetMessageCallback stores on a
\* non-NULL instance
SetMessageCallback_Stored(cb, ctx, subscribeRet) ==
    IF cb = NULL THEN <<NULL, NULL>>
    ELSE IF subscribeRet = 0 THEN <<cb, ctx>>
    ELSE <<NULL, NULL>>

\* the result on a non-NULL instance with the outcome of _Unsubscribe returned
\* as that of _Subscribe is
SetMessageCallback_Result_ChecksUnsubscribe(cb, subscribeRet) ==
    IF subscribeRet = 0 THEN "IOTHUB_CLIENT_OK" ELSE "IOTHUB_CLIENT_ERROR"

\* the result of IoTHubClient_LL_SetMessageCallback on a non-NULL instance
SetMessageCallback_Result(cb, subscribeRet) ==
    IF cb = NULL THEN "IOTHUB_CLIENT_OK"
    ELSE IF subscribeRet = 0 THEN "IOTHUB_CLIENT_OK"
    ELSE "IOTHUB_CLIENT_ERROR"

\* subscribeRet is what the transport's _Subscribe returns when it is called,
\* and how its _Unsubscribe ends (0: done) when that is called.  replaced is the
\* pair registered before the call.
IoTHubClient_LL_SetMessageCallback(h, cb, ctx, subscribeRet) ==
    /\ pc = "idle"
    /\ handle = "live"
    /\ LET base == [op |-> "SetMessageCallback", iotHubClientHandle |-> h,
                    messageCallback |-> cb, userContextCallback |-> ctx,
                    replaced |-> <<messageCallback, messageUserContextCallback>>]
       IN
       IF h = NULL
       THEN /\ call' = base @@ [ret |-> "IOTHUB_CLIENT_INVALID_ARG", transportCall |-> "-",
                                transportReturned |-> 0]
            /\ UNCHANGED <<messageCallback, messageUserContextCallback>>
       ELSE /\ messageCallback' = SetMessageCallback_Stored(cb, ctx, subscribeRet)[1]
            /\ messageUserContextCallback' = SetMessageCallback_Stored(cb, ctx, subscribeRet)[2]
            /\ call' = base @@
                  [ret |-> SetMessageCallback_Result(cb, subscribeRet),
                   transportCall |-> IF cb = NULL THEN "IoTHubTransport_Unsubscribe"
                                     ELSE "IoTHubTransport_Subscribe",
                   transportReturned |-> subscribeRet]
    /\ UNCHANGED <<handle, waitingToSend, inProgress, currentMessageTimeout, tick,
                   accepted, sent, events, pc, transportFields, lowerLayer,
                   lastMessageReceiveTime, wallClock, delivered>>

\* --------------------------------------------------- IoTHubClient_LL_MessageCallback

\* get_time(NULL): the calendar time, or (time_t)(-1) when it is not available
get_time(timeOk) == IF timeOk THEN wallClock ELSE -1

\* the stamp of an inbound message taken only when none is stored yet
MessageCallback_ReceiveTime_KeepsFirst(timeOk) ==
    IF lastMessageReceiveTime = INDEFINITE_TIME THEN get_time(timeOk)
    ELSE lastMessageReceiveTime

\* handleData->lastMessageReceiveTime = get_time(NULL);
MessageCallback_ReceiveTime(timeOk) == get_time(timeOk)

\* the result of IoTHubClient_LL_MessageCallback with the callback's answer
\* replaced by IOTHUBMESSAGE_ACCEPTED
MessageCallback_Result_AlwaysAccepted(cb, disposition) ==
    IF cb # NULL THEN "IOTHUBMESSAGE_ACCEPTED" ELSE "IOTHUBMESSAGE_ABANDONED"

\* the result of IoTHubClient_LL_MessageCallback: what the callback returns, or
\* IOTHUBMESSAGE_ABANDONED without a callback
MessageCallback_Result(cb, disposition) ==
    IF cb # NULL THEN disposition ELSE "IOTHUBMESSAGE_ABANDONED"

\* The transport calls IoTHubClient_LL_MessageCallback from its _DoWork.
\* disposition is what the application's callback returns when it is invoked;
\* invoked lists the arguments of each invocation of that callback.
IoTHubClient_LL_MessageCallback(h, message, timeOk, disposition) ==
    /\ pc = "transport"
    /\ LET base == [op |-> "MessageCallback", handle |-> h, message |-> message,
                    timeOk |-> timeOk, disposition |-> disposition]
       IN
       IF h = NULL
       THEN /\ call' = base @@ [ret |-> "IOTHUBMESSAGE_ABANDONED", invoked |-> <<>>]
            /\ UNCHANGED <<lastMessageReceiveTime, delivered>>
       ELSE /\ lastMessageReceiveTime' = MessageCallback_ReceiveTime(timeOk)
            /\ delivered' = <<[timeOk |-> timeOk, wallClock |-> wallClock]>>
            /\ call' = base @@
                  [ret |-> MessageCallback_Result(messageCallback, disposition),
                   invoked |-> IF messageCallback # NULL
                               THEN <<[callback |-> messageCallback,
                                       message |-> message,
                                       context |-> messageUserContextCallback]>>
                               ELSE <<>>]
    /\ UNCHANGED <<handle, waitingToSend, inProgress, currentMessageTimeout, tick,
                   accepted, sent, events, pc, transportFields, lowerLayer,
                   messageCallback, messageUserContextCallback, wallClock>>

\* ----------------------------------------- IoTHubClient_LL_GetLastMessageReceiveTime

\* handleData->lastMessageReceiveTime == INDEFINITE_TIME
GetLastMessageReceiveTime_IsIndefinite(t) == t = INDEFINITE_TIME

\* out is the pointer argument lastMessageReceiveTime: NULL or "out"; written is
\* what the call stored through it, <<>> when it stored nothing.
IoTHubClient_LL_GetLastMessageReceiveTime(h, out) ==
    /\ pc = "idle"
    /\ handle = "live"
    /\ LET base == [op |-> "GetLastMessageReceiveTime", iotHubClientHandle |-> h,
                    lastMessageReceiveTime |-> out]
       IN
       IF h = NULL \/ out = NULL
       THEN call' = base @@ [ret |-> "IOTHUB_CLIENT_INVALID_ARG", written |-> <<>>]
       ELSE IF GetLastMessageReceiveTime_IsIndefinite(lastMessageReceiveTime)
       THEN call' = base @@ [ret |-> "IOTHUB_CLIENT_INDEFINITE_TIME", written |-> <<>>]
       ELSE call' = base @@ [ret |-> "IOTHUB_CLIENT_OK",
                             written |-> <<lastMessageReceiveTime>>]
    /\ UNCHANGED <<handle, waitingToSend, inProgress, currentMessageTimeout, tick,
                   accepted, sent, events, pc, transportFields, lowerLayer,
                   inboundFields>>

\* -------------------------------------------------------------- the transport

\* Inside its _DoWork the transport removes the k oldest entries from
\* waitingToSend (it was given the list at _Register) and keeps them until it
\* reports them with IoTHubClient_LL_SendComplete.
Transport_Detach(k) ==
    /\ pc = "transport"
    /\ k \in 1 .. Len(waitingToSend)
    /\ inProgress' = inProgress \o SubSeq(waitingToSend, 1, k)
    /\ waitingToSend' = SubSeq(waitingToSend, k + 1, Len(waitingToSend))
    /\ call' = [op |-> "Transport_Detach", k |-> k]
    /\ UNCHANGED <<handle, currentMessageTimeout, tick, accepted, sent, events, pc>>
    /\ UNCHANGED <<transportFields, inboundFields, lowerLayer>>

\* the transport's _DoWork returns, and with it IoTHubClient_LL_DoWork
Transport_DoWork_Return ==
    /\ pc = "transport"
    /\ pc' = "idle"
    /\ call' = [op |-> "DoWork_Return"]
    /\ UNCHANGED <<handle, waitingToSend, inProgress, currentMessageTimeout, tick,
                   accepted, sent, events>>
    /\ UNCHANGED <<transportFields, inboundFields, lowerLayer>>

\* ------------------------------------------------------------ IoTHubClient_LL_Destroy

\* the drain as an if instead of a while: only the head entry is completed
Destroy_Loop_HeadOnly(list, ev) ==
    IF list = <<>>
    THEN [waitingToSend |-> list, events |-> ev]
    ELSE [waitingToSend |-> Tail(list),
          events |-> ev \o DList_Unlinked(Head(list))
                        \o InvokeCallback(Head(list),
                                          "IOTHUB_CLIENT_CONFIRMATION_BECAUSE_DESTROY")
                        \o IoTHubMessage_Destroy(Head(list))]

\* the drain taking the entries from the tail of the list
RECURSIVE Destroy_Loop_FromTail(_, _)
Destroy_Loop_FromTail(list, ev) ==
    IF list = <<>>
    THEN [waitingToSend |-> list, events |-> ev]
    ELSE LET temp == list[Len(list)] IN
         Destroy_Loop_FromTail(
             SubSeq(list, 1, Len(list) - 1),
             ev \o DList_Unlinked(temp)
                \o InvokeCallback(temp, "IOTHUB_CLIENT_CONFIRMATION_BECAUSE_DESTROY")
                \o IoTHubMessage_Destroy(temp))

\* while ((unsend = DList_RemoveHeadList(&waitingToSend)) != &waitingToSend) ...
RECURSIVE Destroy_Loop(_, _)
Destroy_Loop(list, ev) ==
    IF list = <<>>
    THEN [waitingToSend |-> list, events |-> ev]
    ELSE LET temp == Head(list) IN
         Destroy_Loop(Tail(list),
                      ev \o DList_Unlinked(temp)
                         \o InvokeCallback(temp, "IOTHUB_CLIENT_CONFIRMATION_BECAUSE_DESTROY")
                         \o IoTHubMessage_Destroy(temp))

\* the calls into the transport at the start of destroy, with _Destroy called
\* whatever isSharedTransport says
Destroy_Transport_AlwaysDestroys(shared) ==
    <<LowerLayerCall("IoTHubTransport_Unregister", deviceHandle, "-"),
      LowerLayerCall("IoTHubTransport_Destroy", transportHandle, "-")>>

\* the calls into the transport at the start of destroy: _Unregister, and
\* _Destroy if (isSharedTransport == false)
Destroy_Transport(shared) ==
    <<LowerLayerCall("IoTHubTransport_Unregister", deviceHandle, "-")>>
    \o (IF shared = FALSE
        THEN <<LowerLayerCall("IoTHubTransport_Destroy", transportHandle, "-")>>
        ELSE <<>>)

\* _Unregister and (for an owned transport) _Destroy of the transport, then the
\* drain of waitingToSend, then the release of the tick counter and the instance.
IoTHubClient_LL_Destroy(h) ==
    /\ pc = "idle"
    /\ handle = "live"
    /\ call' = [op |-> "Destroy", iotHubClientHandle |-> h]
    /\ IF h = NULL
       THEN UNCHANGED <<handle, waitingToSend, events, lowerLayer>>
       ELSE LET r == Destroy_Loop(waitingToSend, events) IN
            /\ lowerLayer' = lowerLayer \o Destroy_Transport(isSharedTransport)
                                 \o <<LowerLayerCall("tickcounter_destroy", "tickCounter", "-")>>
            /\ waitingToSend' = r.waitingToSend
            /\ events' = r.events
            /\ handle' = "destroyed"
    /\ UNCHANGED <<inProgress, currentMessageTimeout, tick, accepted, sent, pc>>
    /\ UNCHANGED <<transportFields, inboundFields>>

\* ------------------------------------------------------------------ the clock

\* one millisecond passes on the tick counter
Tick ==
    /\ pc = "idle"
    /\ handle = "live"
    /\ tick < TickModulus - 1
    /\ tick' = tick + 1
    /\ call' = [op |-> "Tick"]
    /\ UNCHANGED <<handle, waitingToSend, inProgress, currentMessageTimeout,
                   accepted, sent, events, pc>>
    /\ UNCHANGED <<transportFields, inboundFields, lowerLayer>>

\* Calendar time reaches at most this reading.
MaxTime == 2

\* one second passes on the calendar clock
TimePasses ==
    /\ handle = "live"
    /\ wallClock < MaxTime
    /\ wallClock' = wallClock + 1
    /\ call' = [op |-> "TimePasses"]
    /\ UNCHANGED <<handle, waitingToSend, inProgress, currentMessageTimeout, tick,
                   accepted, sent, events, pc, transportFields, lowerLayer,
                   messageCallback, messageUserContextCallback,
                   lastMessageReceiveTime, delivered>>

\* ------------------------------------------------------------ the specification

Faults == {"none", "malloc", "tickcounter", "IoTHubMessage_Clone"}
BatchResults == {"IOTHUB_BATCHSTATE_SUCCESS", "IOTHUB_BATCHSTATE_FAILED"}

\* the client as IoTHubClient_LL_Create returns it
Init ==
    /\ handle = "live"
    /\ waitingToSend = <<>>
    /\ inProgress = <<>>
    /\ currentMessageTimeout = 0
    /\ tick = 0
    /\ accepted = 0
    /\ sent = <<>>
    /\ events = <<>>
    /\ pc = "idle"
    /\ call = [op |-> "Create", fault |-> "none", ret |-> "handle"]
    /\ transportHandle = "ownTransport"
    /\ isSharedTransport = FALSE
    /\ deviceHandle = "deviceHandle"
    /\ messageCallback = NULL
    /\ messageUserContextCallback = NULL
    /\ lastMessageReceiveTime = INDEFINITE_TIME
    /\ lowerLayer = <<LowerLayerCall("tickcounter_create", "-", "tickCounter"),
                      LowerLayerCall("IoTHubTransport_Create", "lowerLayerConfig",
                                     "ownTransport"),
                      LowerLayerCall("IoTHubTransport_Register", "ownTransport",
                                     "deviceHandle")>>
    /\ wallClock = 0
    /\ delivered = <<>>

\* The calls the application makes that are accepted: the n-th message without
\* callback and context, or with a callback and a context of its own.
SendEventAsync_Accepted ==
    { <<"handle", "msg", NULL, NULL>>,
      <<"handle", "msg", "cb", UserContext(accepted + 1)>> }

\* One call for each way the arguments of IoTHubClient_LL_SendEventAsync can be
\* invalid.
SendEventAsync_Rejected ==
    { <<NULL, "msg", "cb", UserContext(accepted + 1)>>,
      <<"handle", NULL, "cb", UserContext(accepted + 1)>>,
      <<"handle", "msg", NULL, UserContext(accepted + 1)>> }

SetOption_Rejected ==
    { <<NULL, "messageTimeout", <<1>>>>,
      <<"handle", NULL, <<1>>>>,
      <<"handle", "messageTimeout", <<>>>> }

\* The calls that take effect, and IoTHubClient_LL_Destroy(NULL) and
\* IoTHubClient_LL_DoWork(NULL); the application
\* sets the message timeout to a value of timeouts.
Calls(timeouts) ==
    \/ \E a \in SendEventAsync_Accepted :
          IoTHubClient_LL_SendEventAsync(a[1], a[2], a[3], a[4], "none")
    \/ \E v \in timeouts :
          IoTHubClient_LL_SetOption("handle", "messageTimeout", <<v>>, "IOTHUB_CLIENT_OK")
    \/ \E h \in {NULL, "handle"}, clockOk \in BOOLEAN : IoTHubClient_LL_DoWork(h, clockOk)
    \/ \E k \in 1 .. MaxMessages : Transport_Detach(k)
    \/ \E n \in 0 .. MaxMessages, result \in BatchResults :
          IoTHubClient_LL_SendComplete("handle", FALSE, n, result)
    \/ Transport_DoWork_Return
    \/ \E h \in {NULL, "handle"} : IoTHubClient_LL_Destroy(h)
    \/ Tick

\* The lifecycle of up to MaxMessages messages, with timeouts of 0 and 1 ms.
Next == Calls({0, 1}) /\ accepted' <= MaxMessages

Spec == Init /\ [][Next]_vars

\* The application sets timeouts and sends at tick 0, then time passes and the
\* client is driven; the transport leaves the queue alone.
ScanNext ==
    /\ \/ /\ tick = 0
          /\ \E a \in SendEventAsync_Accepted :
                IoTHubClient_LL_SendEventAsync(a[1], a[2], a[3], a[4], "none")
       \/ /\ tick = 0
          /\ \E v \in Uint64 :
                IoTHubClient_LL_SetOption("handle", "messageTimeout", <<v>>, "IOTHUB_CLIENT_OK")
       \/ \E clockOk \in BOOLEAN : IoTHubClient_LL_DoWork("handle", clockOk)
       \/ Transport_DoWork_Return
       \/ Tick
    /\ accepted' <= ScanMessages

ScanSpec == Init /\ [][ScanNext]_vars

\* The same calls with a timeout of 0, 1 or the largest uint64_t, and the calls
\* that are rejected, that fail or that are passed on to the transport.
ApiNext ==
    /\ \/ Calls({0, 1, TickModulus - 1})
       \/ \E a \in SendEventAsync_Rejected :
             IoTHubClient_LL_SendEventAsync(a[1], a[2], a[3], a[4], "none")
       \/ \E a \in SendEventAsync_Accepted, fault \in Faults \ {"none"} :
             IoTHubClient_LL_SendEventAsync(a[1], a[2], a[3], a[4], fault)
       \/ \E a \in SetOption_Rejected :
             IoTHubClient_LL_SetOption(a[1], a[2], a[3], "IOTHUB_CLIENT_OK")
       \/ \E r \in {"IOTHUB_CLIENT_OK", "IOTHUB_CLIENT_ERROR"} :
             IoTHubClient_LL_SetOption("handle", "other", <<1>>, r)
       \/ \E n \in 0 .. ApiMessages, result \in BatchResults :
             IoTHubClient_LL_SendComplete(NULL, FALSE, n, result)
       \/ \E result \in BatchResults :
             IoTHubClient_LL_SendComplete("handle", TRUE, 0, result)
    /\ accepted' <= ApiMessages

ApiSpec == Init /\ [][ApiNext]_vars

\* Number of messages sent in the runs that start before the instance exists.
LifecycleMessages == 1

\* No instance yet: IoTHubClient_LL_Create or IoTHubClient_LL_CreateWithTransport
\* is still to be called.  The fields of the instance are whatever malloc will
\* return them as.
LifecycleInit ==
    /\ handle = "none"
    /\ waitingToSend = <<>>
    /\ inProgress = <<>>
    /\ currentMessageTimeout \in Uint64
    /\ tick = 0
    /\ accepted = 0
    /\ sent = <<>>
    /\ events = <<>>
    /\ pc = "idle"
    /\ call = [op |-> "-"]
    /\ transportHandle = NULL
    /\ isSharedTransport \in BOOLEAN
    /\ deviceHandle = NULL
    /\ messageCallback \in {NULL, "messageCallback"}
    /\ messageUserContextCallback = NULL
    /\ lastMessageReceiveTime \in {INDEFINITE_TIME, 0}
    /\ lowerLayer = <<>>
    /\ wallClock = 0
    /\ delivered = <<>>

\* One instance is created, in either way and with every failure, used and
\* destroyed.
LifecycleNext ==
    /\ \/ \E fault \in CreateFaults : IoTHubClient_LL_Create(fault)
       \/ \E fault \in CreateWithTransportFaults : IoTHubClient_LL_CreateWithTransport(fault)
       \/ Calls({0, 1})
    /\ accepted' <= LifecycleMessages

LifecycleSpec == LifecycleInit /\ [][LifecycleNext]_vars

\* Number of messages sent in the runs of the inbound path.
InboundMessages == 1

\* the handle, callback and context arguments of IoTHubClient_LL_SetMessageCallback
SetMessageCallback_Args ==
    { <<NULL, "messageCallback", "messageContext">>,
      <<"handle", NULL, NULL>>,
      <<"handle", "messageCallback", "messageContext">>,
      <<"handle", "messageCallback2", NULL>> }

Dispositions ==
    {"IOTHUBMESSAGE_ACCEPTED", "IOTHUBMESSAGE_REJECTED", "IOTHUBMESSAGE_ABANDONED"}

\* The application registers and clears its receive callback and asks for the
\* last receive time; inside its _DoWork the transport delivers inbound messages;
\* one message waits in the outbound queue.
InboundNext ==
    /\ \/ \E a \in SetMessageCallback_Args, subscribeRet \in {0, 1} :
             IoTHubClient_LL_SetMessageCallback(a[1], a[2], a[3], subscribeRet)
       \/ \E h \in {NULL, "handle"}, timeOk \in BOOLEAN, disposition \in Dispositions :
             IoTHubClient_LL_MessageCallback(h, "message", timeOk, disposition)
       \/ \E h \in {NULL, "handle"}, out \in {NULL, "out"} :
             IoTHubClient_LL_GetLastMessageReceiveTime(h, out)
       \/ IoTHubClient_LL_SendEventAsync("handle", "msg", "cb", UserContext(accepted + 1),
                                        "none")
       \/ IoTHubClient_LL_DoWork("handle", TRUE)
       \/ Transport_DoWork_Return
       \/ TimePasses
    /\ accepted' <= InboundMessages

InboundSpec == Init /\ [][InboundNext]_vars

\* ------------------------------------------- callbacks that call into the client

\* Number of messages accepted in the runs whose confirmation callbacks call
\* the client (ReentrySpec), those sent by the callbacks included.
ReentryMessages == 3

\* &(handleData->waitingToSend): the list head, where a walk along Flink ends;
\* every other value of a list pointer is the messageHandle of its entry
ListHead == 0

\* The confirmation callbacks an application registers: "cb" returns at once;
\* "cbSends" sends the message again, with itself as callback, as long as the
\* application has messages left; "cbDrives" calls IoTHubClient_LL_DoWork when
\* it is told of a timeout.
ReentrantCallbacks == {"cb", "cbSends", "cbDrives"}

\* What a read of a freed entry yields: the bytes the entry had when it was
\* freed, or a fault that ends the program.
UseAfterFree == {"stale", "crash"}

\* the position in list of the entry p points to
IndexOf(list, p) == CHOOSE k \in 1 .. Len(list) : list[k].messageHandle = p

\* p->Flink, for the list head or a linked entry p
Flink(list, p) ==
    LET i == IF p = ListHead THEN 0 ELSE IndexOf(list, p) IN
    IF i = Len(list) THEN ListHead ELSE list[i + 1].messageHandle

\* DList_RemoveEntryList(p), for a linked entry p
DList_RemoveEntry(list, p) == DList_RemoveEntryList(list, IndexOf(list, p))

\* the instance as one call and the calls nested in it see and change it; freed
\* holds the entries free() was called on during the call, each with the Flink
\* it was left with, freedReads the freed entries that were read afterwards
CallState ==
    [waitingToSend |-> waitingToSend, events |-> events, accepted |-> accepted,
     sent |-> sent, freed |-> <<>>, freedReads |-> <<>>, crashed |-> FALSE]

\* p points to an entry that has been freed
IsFreed(st, p) == \E k \in 1 .. Len(st.freed) : st.freed[k].entry.messageHandle = p

\* the bytes of the freed entry p points to
FreedEntry(st, p) ==
    st.freed[CHOOSE k \in 1 .. Len(st.freed) : st.freed[k].entry.messageHandle = p]

\* IoTHubClient_LL_SendEventAsync called with valid arguments from a callback,
\* malloc, the tick counter and IoTHubMessage_Clone succeeding
SendEventAsync_Nested(st, cb, ctx) ==
    LET a == attach_ms_timesOutAfter(TRUE)
        newEntry == [messageHandle |-> st.accepted + 1,
                     callback |-> cb, context |-> ctx,
                     ms_timesOutAfter |-> a.ms_timesOutAfter]
    IN [st EXCEPT !.waitingToSend = DList_InsertTailList(@, newEntry),
                  !.accepted = @ + 1,
                  !.sent = Append(@, [callback |-> cb, context |-> ctx,
                                      due |-> IF currentMessageTimeout = 0 THEN 0
                                              ELSE tick + currentMessageTimeout])]

RECURSIVE Callback_Nested(_, _, _, _)
RECURSIVE DoTimeouts_Walk(_, _, _, _)

\* DoTimeouts as the pointer walk of the source: currentItemInWaitingToSend is
\* p, and after an eviction the walk goes on at theNext, saved before the
\* callback ran.  A p that was freed in the meantime is read all the same.
DoTimeouts_Walk(st, p, nowTick, ub) ==
    IF st.crashed \/ p = ListHead
    THEN st
    ELSE IF IsFreed(st, p)
    THEN LET read == [st EXCEPT !.freedReads = Append(@, p)]
             old == FreedEntry(st, p)
         IN IF ub = "crash"
            THEN [read EXCEPT !.crashed = TRUE]
            ELSE IF IsTimedOut(old.entry, nowTick)
            THEN LET called == Callback_Nested(
                                   [read EXCEPT !.events = @ \o DList_Unlinked(old.entry)],
                                   old.entry,
                                   "IOTHUB_CLIENT_CONFIRMATION_MESSAGE_TIMEOUT", ub)
                 IN IF called.crashed
                    THEN called
                    ELSE DoTimeouts_Walk(
                             [called EXCEPT
                                 !.events = @ \o IoTHubMessage_Destroy(old.entry)],
                             old.Flink, nowTick, ub)
            ELSE DoTimeouts_Walk(read, old.Flink, nowTick, ub)
    ELSE LET fullEntry == st.waitingToSend[IndexOf(st.waitingToSend, p)] IN
         IF IsTimedOut(fullEntry, nowTick)
         THEN LET theNext == Flink(st.waitingToSend, p)
                  called == Callback_Nested(
                                [st EXCEPT
                                    !.waitingToSend = DList_RemoveEntry(@, p),
                                    !.events = @ \o DList_Unlinked(fullEntry)],
                                fullEntry,
                                "IOTHUB_CLIENT_CONFIRMATION_MESSAGE_TIMEOUT", ub)
              IN IF called.crashed
                 THEN called
                 ELSE DoTimeouts_Walk(
                          [called EXCEPT
                              !.events = @ \o IoTHubMessage_Destroy(fullEntry),
                              !.freed = Append(@, [entry |-> fullEntry,
                                                   Flink |-> theNext])],
                          theNext, nowTick, ub)
         ELSE DoTimeouts_Walk(st, Flink(st.waitingToSend, p), nowTick, ub)

\* DoTimeouts with the tick counter read: the walk from waitingToSend.Flink
DoTimeouts_Nested(st, ub) ==
    DoTimeouts_Walk(st, Flink(st.waitingToSend, ListHead), tick, ub)

\* if (callback != NULL) callback(result, context); with what the callback of
\* the application does before it returns.  The transport's _DoWork that a
\* nested IoTHubClient_LL_DoWork calls returns without touching the queue.
Callback_Nested(st, entry, result, ub) ==
    LET called == [st EXCEPT !.events = @ \o InvokeCallback(entry, result)] IN
    IF entry.callback = "cbSends" /\ called.accepted < ReentryMessages
    THEN SendEventAsync_Nested(called, "cbSends", UserContext(called.accepted + 1))
    ELSE IF /\ entry.callback = "cbDrives"
            /\ result = "IOTHUB_CLIENT_CONFIRMATION_MESSAGE_TIMEOUT"
    THEN DoTimeouts_Nested(called, ub)
    ELSE called

\* the drain of destroy completing the entries that were queued when it began
\* and no entry a callback appends
RECURSIVE Destroy_Drain_QueuedAtStart(_, _, _)
Destroy_Drain_QueuedAtStart(st, n, ub) ==
    IF n = 0 \/ st.waitingToSend = <<>>
    THEN st
    ELSE LET temp == Head(st.waitingToSend)
             called == Callback_Nested(
                           [st EXCEPT !.waitingToSend = Tail(@),
                                      !.events = @ \o DList_Unlinked(temp)],
                           temp, "IOTHUB_CLIENT_CONFIRMATION_BECAUSE_DESTROY", ub)
         IN Destroy_Drain_QueuedAtStart(
                [called EXCEPT !.events = @ \o IoTHubMessage_Destroy(temp),
                               !.freed = Append(@, [entry |-> temp, Flink |-> ListHead])],
                n - 1, ub)

\* while ((unsend = DList_RemoveHeadList(&waitingToSend)) != &waitingToSend):
\* the head is taken anew after each callback; n is the length of the queue when
\* the drain began, which the loop does not look at
RECURSIVE Destroy_Drain(_, _, _)
Destroy_Drain(st, n, ub) ==
    IF st.waitingToSend = <<>>
    THEN st
    ELSE LET temp == Head(st.waitingToSend)
             called == Callback_Nested(
                           [st EXCEPT !.waitingToSend = Tail(@),
                                      !.events = @ \o DList_Unlinked(temp)],
                           temp, "IOTHUB_CLIENT_CONFIRMATION_BECAUSE_DESTROY", ub)
         IN Destroy_Drain(
                [called EXCEPT !.events = @ \o IoTHubMessage_Destroy(temp),
                               !.freed = Append(@, [entry |-> temp, Flink |-> ListHead])],
                n, ub)

\* IoTHubClient_LL_DoWork(handle) of an application whose callbacks may call the
\* client: DoTimeouts, then the transport's _DoWork, which runs until
\* Transport_DoWork_Return.  A fault ends the program.
DoWork_Reentrant(ub) ==
    /\ pc = "idle"
    /\ handle = "live"
    /\ LET r == DoTimeouts_Nested(CallState, ub) IN
       /\ waitingToSend' = r.waitingToSend
       /\ events' = r.events
       /\ accepted' = r.accepted
       /\ sent' = r.sent
       /\ handle' = IF r.crashed THEN "crashed" ELSE handle
       /\ pc' = IF r.crashed THEN pc ELSE "transport"
       /\ call' = [op |-> "DoWork", iotHubClientHandle |-> "handle", clockOk |-> TRUE,
                   queued |-> [k \in 1 .. Len(waitingToSend) |->
                                  waitingToSend[k].messageHandle],
                   freed |-> [k \in 1 .. Len(r.freed) |-> r.freed[k].entry.messageHandle],
                   freedReads |-> r.freedReads, crashed |-> r.crashed]
    /\ UNCHANGED <<inProgress, currentMessageTimeout, tick>>
    /\ UNCHANGED <<transportFields, inboundFields, lowerLayer>>

\* IoTHubClient_LL_Destroy(handle) of an application whose callbacks may call
\* the client
Destroy_Reentrant(ub) ==
    /\ pc = "idle"
    /\ handle = "live"
    /\ LET r == Destroy_Drain(CallState, Len(waitingToSend), ub) IN
       /\ waitingToSend' = r.waitingToSend
       /\ events' = r.events
       /\ accepted' = r.accepted
       /\ sent' = r.sent
       /\ call' = [op |-> "Destroy", iotHubClientHandle |-> "handle",
                   queued |-> [k \in 1 .. Len(waitingToSend) |->
                                  waitingToSend[k].messageHandle],
                   freed |-> [k \in 1 .. Len(r.freed) |-> r.freed[k].entry.messageHandle]]
    /\ lowerLayer' = lowerLayer \o Destroy_Transport(isSharedTransport)
                         \o <<LowerLayerCall("tickcounter_destroy", "tickCounter", "-")>>
    /\ handle' = "destroyed"
    /\ UNCHANGED <<inProgress, currentMessageTimeout, tick, pc>>
    /\ UNCHANGED <<transportFields, inboundFields>>

\* The application sends messages with callbacks that return, send again or
\* drive the client, sets the timeout to 0, 1 or the largest uint64_t, drives
\* the client and destroys it.
ReentryNext ==
    /\ \/ \E cb \in ReentrantCallbacks :
             IoTHubClient_LL_SendEventAsync("handle", "msg", cb,
                                            UserContext(accepted + 1), "none")
       \/ \E v \in {0, 1, TickModulus - 1} :
             IoTHubClient_LL_SetOption("handle", "messageTimeout", <<v>>,
                                       "IOTHUB_CLIENT_OK")
       \/ \E ub \in UseAfterFree : DoWork_Reentrant(ub)
       \/ Transport_DoWork_Return
       \/ \E ub \in UseAfterFree : Destroy_Reentrant(ub)
       \/ Tick
    /\ accepted' <= ReentryMessages

ReentrySpec == Init /\ [][ReentryNext]_vars

\* The application sends messages with callbacks that return or send again,
\* with a timeout of 0 or 1 ms, lets time pass and destroys the client.
DrainNext ==
    /\ \/ \E cb \in {NULL, "cb", "cbSends"} :
             IoTHubClient_LL_SendEventAsync("handle", "msg", cb,
                                            UserContext(accepted + 1), "none")
       \/ \E v \in {0, 1} :
             IoTHubClient_LL_SetOption("handle", "messageTimeout", <<v>>,
                                       "IOTHUB_CLIENT_OK")
       \/ \E ub \in UseAfterFree : Destroy_Reentrant(ub)
       \/ Tick
    /\ accepted' <= ReentryMessages

DrainSpec == Init /\ [][DrainNext]_vars

\* ------------------------------------------------------------------ properties

ConfirmationResults ==
    {"IOTHUB_CLIENT_CONFIRMATION_OK", "IOTHUB_CLIENT_CONFIRMATION_ERROR",
     "IOTHUB_CLIENT_CONFIRMATION_MESSAGE_TIMEOUT",
     "IOTHUB_CLIENT_CONFIRMATION_BECAUSE_DESTROY"}

\* the positions of the log where the callback of entry id was invoked
CallbacksOf(log, id) ==
    {i \in 1 .. Len(log) : log[i].type = "callback" /\ log[i].entry = id}

\* the positions of the log where the message copy of entry id was released
DestroysOf(log, id) ==
    {i \in 1 .. Len(log) : log[i].type = "IoTHubMessage_Destroy" /\ log[i].entry = id}

\* how often entry id is a member of list
Occurrences(list, id) ==
    Cardinality({i \in 1 .. Len(list) : list[i].messageHandle = id})

\* entry id got a callback with this result
Notified(log, id, result) ==
    \E i \in CallbacksOf(log, id) : log[i].result = result

\* the messageHandle of each entry of list, in order
Ids(list) == [i \in 1 .. Len(list) |-> list[i].messageHandle]

\* what one step appended to the log
AddedEvents == SubSeq(events', Len(events) + 1, Len(events'))

\* the callback invocations of a piece of the log: entry, result and context
CallbacksIn(log) ==
    LET isCallback(e) == e.type = "callback"
        c == SelectSeq(log, isCallback)
    IN [i \in 1 .. Len(c) |->
           [entry |-> c[i].entry, result |-> c[i].result, context |-> c[i].context]]

\* the entries whose message copy a piece of the log releases
DestroysIn(log) ==
    LET isDestroy(e) == e.type = "IoTHubMessage_Destroy"
        d == SelectSeq(log, isDestroy)
    IN [i \in 1 .. Len(d) |-> d[i].entry]

\* one invocation, with this result and with the context given to send-async,
\* for each entry of list that was sent with a callback, in the order of list
OneCallbackEach(list, result) ==
    LET hasCallback(e) == sent[e.messageHandle].callback # NULL
        w == SelectSeq(list, hasCallback)
    IN [i \in 1 .. Len(w) |->
           [entry |-> w[i].messageHandle, result |-> result,
            context |-> sent[w[i].messageHandle].context]]

\* C1: no accepted entry ever has more than one terminal action.  In every
\* reachable state each accepted entry is in exactly one place: in the queue, with
\* the transport, or released; its callback has been invoked at most once, with
\* one of the four statuses and only together with its release; an entry sent
\* without callback is never notified.
C1_AtMostOneTerminalAction ==
    \A id \in 1 .. accepted :
        /\ Cardinality(CallbacksOf(events, id)) <= 1
        /\ Cardinality(DestroysOf(events, id)) <= 1
        /\ \A i \in CallbacksOf(events, id) : events[i].result \in ConfirmationResults
        /\ Occurrences(waitingToSend, id) + Occurrences(inProgress, id)
              + Cardinality(DestroysOf(events, id)) = 1
        /\ Cardinality(CallbacksOf(events, id)) <= Cardinality(DestroysOf(events, id))
        /\ sent[id].callback = NULL => CallbacksOf(events, id) = {}

\* two entries that ended differently: one timed out, one was confirmed
C1_Witness ==
    /\ accepted = 2
    /\ \E a, b \in 1 .. accepted :
          /\ a # b
          /\ Notified(events, a, "IOTHUB_CLIENT_CONFIRMATION_MESSAGE_TIMEOUT")
          /\ Notified(events, b, "IOTHUB_CLIENT_CONFIRMATION_OK")
    /\ \A id \in 1 .. accepted : Cardinality(DestroysOf(events, id)) = 1

\* exactly one completion: the message copy released once and, for an entry sent
\* with a callback, the callback invoked once
CompletedOnce(id) ==
    /\ Cardinality(DestroysOf(events, id)) = 1
    /\ sent[id].callback # NULL => Cardinality(CallbacksOf(events, id)) = 1

\* C2 as stated: once destroy has returned, every accepted message has received
\* exactly one completion, whatever the transport did with it.
C2_EveryMessageCompletedAtDestroy ==
    handle = "destroyed" => \A id \in 1 .. accepted : CompletedOnce(id)

\* C2 as amended: once destroy has returned, every accepted message has received
\* exactly one completion, except the entries the transport detached and has not
\* reported: those have received none.
C2_CompletedUnlessHeldByTransport ==
    handle = "destroyed" =>
        \A id \in 1 .. accepted :
            IF Occurrences(inProgress, id) = 0
            THEN CompletedOnce(id)
            ELSE CallbacksOf(events, id) = {} /\ DestroysOf(events, id) = {}

\* destroy has returned; one message was reported by the transport before, one was
\* still queued and completed by the drain
C2_Witness ==
    /\ handle = "destroyed"
    /\ accepted = 2
    /\ inProgress = <<>>
    /\ \E a, b \in 1 .. accepted :
          /\ Notified(events, a, "IOTHUB_CLIENT_CONFIRMATION_ERROR")
          /\ Notified(events, b, "IOTHUB_CLIENT_CONFIRMATION_BECAUSE_DESTROY")

\* C3: destroy on a live instance leaves the queue empty, invokes the callback of
\* every queued entry sent with one exactly once, with status destroyed and the
\* context given to send-async, in head-to-tail order, and releases the message
\* copy of every queued entry; destroy on a null instance changes nothing.
C3_DestroyDrainsQueue ==
    [][call'.op = "Destroy" =>
          IF call'.iotHubClientHandle = NULL
          THEN UNCHANGED <<handle, waitingToSend, inProgress, currentMessageTimeout,
                           tick, accepted, sent, events, pc>>
          ELSE /\ handle' = "destroyed"
               /\ waitingToSend' = <<>>
               /\ CallbacksIn(AddedEvents)
                     = OneCallbackEach(waitingToSend,
                                       "IOTHUB_CLIENT_CONFIRMATION_BECAUSE_DESTROY")
               /\ DestroysIn(AddedEvents) = Ids(waitingToSend)
               /\ inProgress' = inProgress]_vars

\* destroy has drained two entries, the first sent without a callback and the
\* second with one
C3_Witness ==
    /\ call.op = "Destroy"
    /\ handle = "destroyed"
    /\ accepted = 2
    /\ sent[1].callback = NULL
    /\ sent[2].callback # NULL
    /\ CallbacksIn(events)
          = <<[entry |-> 2, result |-> "IOTHUB_CLIENT_CONFIRMATION_BECAUSE_DESTROY",
               context |-> sent[2].context]>>
    /\ DestroysIn(events) = <<1, 2>>

\* a queued entry is expired at this clock reading
Expired(entry, now) == entry.ms_timesOutAfter # 0 /\ entry.ms_timesOutAfter < now

\* the step is a drive cycle whose timeout scan read the clock
ScanStep ==
    /\ call'.op = "DoWork"
    /\ call'.iotHubClientHandle # NULL
    /\ call'.clockOk

\* C4: one timeout scan at clock reading now removes exactly the entries whose
\* expiry is non-zero and less than now, invokes the callback of each removed
\* entry sent with one exactly once with status timeout, releases their message
\* copies, and keeps every other entry in its original order.
C4_ScanEvictsExactlyExpired ==
    [][ScanStep =>
          LET isExpired(e) == Expired(e, tick)
              stays(e) == ~Expired(e, tick)
          IN /\ waitingToSend' = SelectSeq(waitingToSend, stays)
             /\ CallbacksIn(AddedEvents)
                   = OneCallbackEach(SelectSeq(waitingToSend, isExpired),
                                     "IOTHUB_CLIENT_CONFIRMATION_MESSAGE_TIMEOUT")
             /\ DestroysIn(AddedEvents) = Ids(SelectSeq(waitingToSend, isExpired))]_vars

\* of three queued entries one scan has evicted the first and the third, both
\* with a callback, and kept the second, which never expires
C4_Witness ==
    /\ call.op = "DoWork"
    /\ pc = "transport"
    /\ accepted = 3
    /\ Ids(waitingToSend) = <<2>>
    /\ waitingToSend[1].ms_timesOutAfter = 0
    /\ [i \in 1 .. Len(CallbacksIn(events)) |-> CallbacksIn(events)[i].entry] = <<1, 3>>
    /\ \A i \in 1 .. Len(CallbacksIn(events)) :
          CallbacksIn(events)[i].result = "IOTHUB_CLIENT_CONFIRMATION_MESSAGE_TIMEOUT"
    /\ DestroysIn(events) = <<1, 3>>

\* C5 as stated: a send-async at clock reading c with default timeout T > 0
\* stores the expiry c + T; a scan at a clock reading <= c + T leaves the entry
\* queued and does not call its callback, and a scan at a clock reading > c + T
\* evicts it and calls its callback once with status timeout.
C5_ExpiryIsClockPlusTimeout ==
    [][/\ (call'.op = "SendEventAsync" /\ accepted' = accepted + 1
             /\ currentMessageTimeout > 0)
          => waitingToSend'[Len(waitingToSend')].ms_timesOutAfter
                = tick + currentMessageTimeout
       /\ ScanStep =>
             \A i \in 1 .. Len(waitingToSend) :
                 LET id == waitingToSend[i].messageHandle IN
                 sent[id].due > 0 =>
                     IF tick <= sent[id].due
                     THEN /\ Occurrences(waitingToSend', id) = 1
                          /\ CallbacksOf(events', id) = {}
                     ELSE /\ Occurrences(waitingToSend', id) = 0
                          /\ sent[id].callback # NULL =>
                                /\ Cardinality(CallbacksOf(events', id)) = 1
                                /\ Notified(events', id,
                                            "IOTHUB_CLIENT_CONFIRMATION_MESSAGE_TIMEOUT")]_vars

\* C6: a message accepted while the default timeout is 0 has expiry 0, is kept in
\* the queue by every drive cycle's scan, and its callback is never invoked with
\* status timeout.
C6_NoTimeoutNeverExpires ==
    [][/\ \A i \in 1 .. Len(waitingToSend) :
             LET e == waitingToSend[i] IN
             sent[e.messageHandle].due = 0 =>
                 /\ e.ms_timesOutAfter = 0
                 /\ call'.op = "DoWork" => Occurrences(waitingToSend', e.messageHandle) = 1
       /\ \A id \in 1 .. accepted' :
             sent'[id].due = 0 =>
                 ~Notified(events', id, "IOTHUB_CLIENT_CONFIRMATION_MESSAGE_TIMEOUT")]_vars

\* at the last tick a scan has evicted a timed entry and kept one accepted with
\* timeout 0
C6_Witness ==
    /\ call.op = "DoWork"
    /\ call.clockOk
    /\ tick = TickModulus - 1
    /\ accepted = 2
    /\ \E i \in 1 .. Len(waitingToSend) : sent[waitingToSend[i].messageHandle].due = 0
    /\ \E id \in 1 .. accepted :
          Notified(events, id, "IOTHUB_CLIENT_CONFIRMATION_MESSAGE_TIMEOUT")

\* the entries of list are in the order in which their sends were accepted
InSendOrder(list) ==
    \A i, j \in 1 .. Len(list) : i < j => list[i].messageHandle < list[j].messageHandle

InvalidSend ==
    \/ call'.iotHubClientHandle = NULL
    \/ call'.eventMessageHandle = NULL
    \/ (call'.callback = NULL /\ call'.context # NULL)

\* the step left the queue, the log and the rest of the instance as they were
NoSideEffect ==
    UNCHANGED <<handle, waitingToSend, inProgress, currentMessageTimeout, tick,
                accepted, sent, events, pc, transportFields, inboundFields,
                lowerLayer>>

\* C8: send-async with a null instance, a null message, or a null callback and a
\* non-null context returns invalid-argument, reads no clock and changes nothing;
\* with valid arguments (a null callback with a null context among them) and
\* every resource available it returns ok and appends the entry.
C8_InvalidSendRejected ==
    [][call'.op = "SendEventAsync" =>
          /\ InvalidSend =>
                /\ call'.ret = "IOTHUB_CLIENT_INVALID_ARG"
                /\ call'.clockReads = 0
                /\ NoSideEffect
          /\ (~InvalidSend /\ call'.fault = "none") =>
                /\ call'.ret = "IOTHUB_CLIENT_OK"
                /\ Len(waitingToSend') = Len(waitingToSend) + 1
                /\ waitingToSend'[Len(waitingToSend')].callback = call'.callback
                /\ waitingToSend'[Len(waitingToSend')].context = call'.context]_vars

\* a call with a context and no callback was rejected while a message was queued
C8_Witness ==
    /\ call.op = "SendEventAsync"
    /\ call.iotHubClientHandle # NULL
    /\ call.eventMessageHandle # NULL
    /\ call.callback = NULL
    /\ call.context # NULL
    /\ call.ret = "IOTHUB_CLIENT_INVALID_ARG"
    /\ Len(waitingToSend) = 1

\* C9: a valid send-async returns error and leaves everything as it was when the
\* message copy fails, or when the clock cannot be read while the default timeout
\* is non-zero; with default timeout 0 the clock is not read and an unreadable
\* clock does not make the send fail.
C9_FailedSendLeavesQueue ==
    [][(call'.op = "SendEventAsync" /\ ~InvalidSend) =>
          /\ call'.fault = "IoTHubMessage_Clone" =>
                call'.ret = "IOTHUB_CLIENT_ERROR" /\ NoSideEffect
          /\ (call'.fault = "tickcounter" /\ currentMessageTimeout # 0) =>
                call'.ret = "IOTHUB_CLIENT_ERROR" /\ NoSideEffect
          /\ currentMessageTimeout = 0 => call'.clockReads = 0
          /\ (call'.fault = "tickcounter" /\ currentMessageTimeout = 0) =>
                /\ call'.ret = "IOTHUB_CLIENT_OK"
                /\ accepted' = accepted + 1
                /\ waitingToSend'[Len(waitingToSend')].ms_timesOutAfter = 0]_vars

\* with a non-zero timeout and a message queued, a send failed on the clock
C9_Witness ==
    /\ call.op = "SendEventAsync"
    /\ call.fault = "tickcounter"
    /\ call.ret = "IOTHUB_CLIENT_ERROR"
    /\ call.clockReads = 1
    /\ currentMessageTimeout # 0
    /\ Len(waitingToSend) = 1

\* C10: send-complete with a non-null instance and batch invokes, in batch order,
\* the callback of every entry of the batch sent with one, once, with the context
\* given to send-async and with confirmed (batch result success) or error
\* (otherwise) for all of them, releases every entry of the batch, leaves the
\* batch empty and does not touch the queue.
C10_SendCompleteNotifiesBatch ==
    [][(/\ call'.op = "SendComplete"
        /\ call'.handle # NULL
        /\ call'.completed # NULL) =>
          LET batch == SubSeq(inProgress, 1, call'.n)
              status == IF call'.result = "IOTHUB_BATCHSTATE_SUCCESS"
                        THEN "IOTHUB_CLIENT_CONFIRMATION_OK"
                        ELSE "IOTHUB_CLIENT_CONFIRMATION_ERROR"
          IN /\ CallbacksIn(AddedEvents) = OneCallbackEach(batch, status)
             /\ DestroysIn(AddedEvents) = Ids(batch)
             /\ inProgress' = SubSeq(inProgress, call'.n + 1, Len(inProgress))
             /\ waitingToSend' = waitingToSend]_vars

\* a batch of two entries with callbacks was reported as failed
C10_Witness ==
    /\ call.op = "SendComplete"
    /\ call.n = 2
    /\ call.result = "IOTHUB_BATCHSTATE_FAILED"
    /\ inProgress = <<>>
    /\ CallbacksIn(events)
          = <<[entry |-> 1, result |-> "IOTHUB_CLIENT_CONFIRMATION_ERROR",
               context |-> UserContext(1)],
              [entry |-> 2, result |-> "IOTHUB_CLIENT_CONFIRMATION_ERROR",
               context |-> UserContext(2)]>>
    /\ DestroysIn(events) = <<1, 2>>

\* C11: send-complete with a null instance or a null batch invokes no callback,
\* releases no entry and changes neither the batch (the entries the transport
\* holds) nor the queue nor anything else of the instance.
C11_SendCompleteNullIsNoOp ==
    [][(/\ call'.op = "SendComplete"
        /\ (call'.handle = NULL \/ call'.completed = NULL)) =>
          /\ AddedEvents = <<>>
          /\ inProgress' = inProgress
          /\ waitingToSend' = waitingToSend
          /\ NoSideEffect]_vars

\* the transport reported a batch of one entry with a callback on a null
\* instance: the entry is still with the transport and nothing was invoked
C11_Witness ==
    /\ call.op = "SendComplete"
    /\ call.handle = NULL
    /\ call.completed # NULL
    /\ call.n = 1
    /\ Len(inProgress) = 1
    /\ sent[inProgress[1].messageHandle].callback # NULL
    /\ events = <<>>

\* the results with which the transport's report completes an entry
TransportResults ==
    {"IOTHUB_CLIENT_CONFIRMATION_OK", "IOTHUB_CLIENT_CONFIRMATION_ERROR"}

\* C12: a drive cycle on a non-null instance ends its timeout scan before the
\* transport's do-work starts: the step that enters the transport is the drive
\* call and has not touched what the transport holds, the queue it hands over
\* holds no entry that is expired at the clock reading of a scan that read the
\* clock, and the transport detaches and reports entries only inside its do-work.
\* No entry is notified both of a timeout and of confirmed or error.  Drive on a
\* null instance changes nothing.
C12_ScanBeforeTransport ==
    [][/\ (pc = "idle" /\ pc' = "transport") =>
             /\ call'.op = "DoWork"
             /\ call'.iotHubClientHandle # NULL
             /\ inProgress' = inProgress
             /\ call'.clockOk =>
                   \A i \in 1 .. Len(waitingToSend') : ~Expired(waitingToSend'[i], tick)
       /\ (call'.op = "DoWork" /\ call'.iotHubClientHandle # NULL) => pc' = "transport"
       /\ call'.op \in {"Transport_Detach", "SendComplete"} =>
             /\ pc = "transport"
             /\ \A i \in 1 .. Len(AddedEvents) :
                    AddedEvents[i].type = "callback" =>
                        AddedEvents[i].result \in TransportResults
       /\ (call'.op = "DoWork" /\ call'.iotHubClientHandle = NULL) => NoSideEffect
       /\ \A id \in 1 .. accepted' :
             Notified(events', id, "IOTHUB_CLIENT_CONFIRMATION_MESSAGE_TIMEOUT") =>
                 \A r \in TransportResults : ~Notified(events', id, r)]_vars

\* in one cycle the scan evicted the first message and the transport then
\* confirmed the second, which it found in the queue
C12_Witness ==
    /\ pc = "transport"
    /\ call.op = "SendComplete"
    /\ accepted = 2
    /\ CallbacksIn(events)
          = <<[entry |-> 1, result |-> "IOTHUB_CLIENT_CONFIRMATION_MESSAGE_TIMEOUT",
               context |-> UserContext(1)],
              [entry |-> 2, result |-> "IOTHUB_CLIENT_CONFIRMATION_OK",
               context |-> UserContext(2)]>>
    /\ DestroysIn(events) = <<1, 2>>

AddedCalls == SubSeq(lowerLayer', Len(lowerLayer) + 1, Len(lowerLayer'))

\* the functions called in a piece of that log, in order
Fns(log) == [i \in 1 .. Len(log) |-> log[i].fn]

\* the instance was made by create: its transport came from the transport's _Create
MadeByCreate(log) == CallsOf(log, "IoTHubTransport_Create") # {}

\* what the transport's _Register returned when the instance was made
RegisteredDevice(log) ==
    LET i == CHOOSE j \in CallsOf(log, "IoTHubTransport_Register") : TRUE IN log[i].ret

\* the transport the instance was registered with
BoundTransport(log) ==
    LET i == CHOOSE j \in CallsOf(log, "IoTHubTransport_Register") : TRUE IN log[i].arg

\* C14: destroy on an instance calls the transport's unregister exactly once,
\* with the device handle register returned; it then calls the transport's
\* destroy exactly once, on the instance's transport, if the instance was made by
\* create, and not at all if it was made by create-with-transport, so that the
\* caller's transport has never been destroyed.
C14_DestroyTearsDownOwnedTransportOnly ==
    [][(call'.op = "Destroy" /\ call'.iotHubClientHandle # NULL) =>
          LET unregister == CallsOf(AddedCalls, "IoTHubTransport_Unregister")
              destroy == CallsOf(AddedCalls, "IoTHubTransport_Destroy")
          IN /\ Cardinality(unregister) = 1
             /\ \A i \in unregister : AddedCalls[i].arg = RegisteredDevice(lowerLayer)
             /\ IF MadeByCreate(lowerLayer)
                THEN /\ Cardinality(destroy) = 1
                     /\ \A i \in destroy :
                            /\ AddedCalls[i].arg = BoundTransport(lowerLayer)
                            /\ \A j \in unregister : j < i
                ELSE /\ destroy = {}
                     /\ \A i \in CallsOf(lowerLayer', "IoTHubTransport_Destroy") :
                            lowerLayer'[i].arg # "sharedTransport"]_vars

\* an instance made by create-with-transport was destroyed with a message
\* queued: the caller's transport was unregistered from and not destroyed
C14_Witness ==
    /\ call.op = "Destroy"
    /\ handle = "destroyed"
    /\ accepted = 1
    /\ Len(DestroysIn(events)) = 1
    /\ Fns(lowerLayer) = <<"tickcounter_create", "IoTHubTransport_Register",
                           "IoTHubTransport_Unregister", "tickcounter_destroy">>
    /\ lowerLayer[2].arg = "sharedTransport"

\* how many handles of a resource a piece of the log leaves acquired: the calls
\* of create that returned one less the calls of destroy
Acquired(log, create, destroy) ==
    Cardinality({i \in CallsOf(log, create) : log[i].ret # NULL})
       - Cardinality(CallsOf(log, destroy))

\* C15: create returns a null handle on every failure and a handle otherwise.
\* When the clock handle cannot be acquired nothing else is called; when the
\* transport's create fails the clock handle is released and neither register nor
\* the transport's destroy is called; when register fails the transport's destroy
\* is called once and then the clock handle is released.  A failed create leaves
\* no clock handle and no transport acquired; a successful one releases none.
C15_CreateUnwinds ==
    [][call'.op = "Create" =>
          /\ call'.ret = NULL <=> call'.fault # "none"
          /\ handle' = (IF call'.fault = "none" THEN "live" ELSE NULL)
          /\ call'.fault = "tickcounter_create" =>
                Fns(AddedCalls) = <<"tickcounter_create">>
          /\ call'.fault = "IoTHubTransport_Create" =>
                Fns(AddedCalls) = <<"tickcounter_create", "IoTHubTransport_Create",
                                    "tickcounter_destroy">>
          /\ call'.fault = "IoTHubTransport_Register" =>
                Fns(AddedCalls) = <<"tickcounter_create", "IoTHubTransport_Create",
                                    "IoTHubTransport_Register", "IoTHubTransport_Destroy",
                                    "tickcounter_destroy">>
          /\ call'.ret = NULL =>
                /\ Acquired(AddedCalls, "tickcounter_create", "tickcounter_destroy") = 0
                /\ Acquired(AddedCalls, "IoTHubTransport_Create",
                            "IoTHubTransport_Destroy") = 0
          /\ call'.ret # NULL =>
                /\ Acquired(AddedCalls, "tickcounter_create", "tickcounter_destroy") = 1
                /\ Acquired(AddedCalls, "IoTHubTransport_Create",
                            "IoTHubTransport_Destroy") = 1
                /\ CallsOf(AddedCalls, "tickcounter_destroy") = {}
                /\ CallsOf(AddedCalls, "IoTHubTransport_Destroy") = {}]_vars

\* create has failed at register and returned a null handle
C15_Witness ==
    /\ call.op = "Create"
    /\ call.fault = "IoTHubTransport_Register"
    /\ call.ret = NULL
    /\ handle = NULL
    /\ Len(lowerLayer) = 5
    /\ lowerLayer[3].ret = NULL

\* C16: create-with-transport never calls the transport's create or destroy and
\* calls register, once, on the caller's transport; when register fails it
\* releases its clock handle and returns a null handle; when it succeeds the
\* instance is marked shared, and a later destroy of that instance does not call
\* the transport's destroy.
C16_CreateWithTransportOnlyRegisters ==
    [][/\ call'.op = "CreateWithTransport" =>
             /\ CallsOf(AddedCalls, "IoTHubTransport_Create") = {}
             /\ CallsOf(AddedCalls, "IoTHubTransport_Destroy") = {}
             /\ Cardinality(CallsOf(AddedCalls, "IoTHubTransport_Register")) <= 1
             /\ \A i \in CallsOf(AddedCalls, "IoTHubTransport_Register") :
                    AddedCalls[i].arg = "sharedTransport"
             /\ call'.fault = "IoTHubTransport_Register" =>
                   /\ Fns(AddedCalls) = <<"tickcounter_create", "IoTHubTransport_Register",
                                          "tickcounter_destroy">>
                   /\ call'.ret = NULL
                   /\ handle' = NULL
             /\ call'.fault = "none" =>
                   /\ Fns(AddedCalls) = <<"tickcounter_create", "IoTHubTransport_Register">>
                   /\ call'.ret # NULL
                   /\ handle' = "live"
                   /\ isSharedTransport' = TRUE
                   /\ transportHandle' = "sharedTransport"
       /\ (/\ call'.op = "Destroy"
           /\ call'.iotHubClientHandle # NULL
           /\ ~MadeByCreate(lowerLayer)) =>
             /\ isSharedTransport = TRUE
             /\ CallsOf(lowerLayer', "IoTHubTransport_Destroy") = {}]_vars

\* create-with-transport has succeeded on memory whose shared flag was false
\* before, and the instance is live and marked shared
C16_Witness ==
    /\ call.op = "CreateWithTransport"
    /\ call.fault = "none"
    /\ handle = "live"
    /\ isSharedTransport = TRUE
    /\ transportHandle = "sharedTransport"
    /\ Fns(lowerLayer) = <<"tickcounter_create", "IoTHubTransport_Register">>

\* C17: set-option with a null instance, name or value returns invalid-argument,
\* calls no transport function and changes nothing; with the name
\* "messageTimeout" it stores the value as the default timeout, returns ok and
\* does not call the transport; with any other name it calls the transport's
\* set-option once, returns what that returned and leaves the default timeout.
C17_SetOptionRoutesByName ==
    [][call'.op = "SetOption" =>
          IF \/ call'.iotHubClientHandle = NULL
             \/ call'.optionName = NULL
             \/ call'.value = <<>>
          THEN /\ call'.ret = "IOTHUB_CLIENT_INVALID_ARG"
               /\ call'.transportCalls = 0
               /\ NoSideEffect
          ELSE IF call'.optionName = "messageTimeout"
          THEN /\ currentMessageTimeout' = call'.value[1]
               /\ call'.ret = "IOTHUB_CLIENT_OK"
               /\ call'.transportCalls = 0
          ELSE /\ call'.transportCalls = 1
               /\ call'.ret = call'.transportReturned
               /\ currentMessageTimeout' = currentMessageTimeout]_vars

\* an option that is not the client's was passed to the transport, which failed,
\* while the default timeout was 2: the error is returned and the timeout kept
C17_Witness ==
    /\ call.op = "SetOption"
    /\ call.optionName = "other"
    /\ call.transportCalls = 1
    /\ call.ret = "IOTHUB_CLIENT_ERROR"
    /\ currentMessageTimeout = TickModulus - 1

\* the expiry an entry got from the default timeout in force at its send: 0 for
\* timeout 0, else the clock reading plus the timeout as a uint64_t
ExpiryAtSend(id) ==
    IF sent'[id].due = 0 THEN 0 ELSE sent'[id].due % TickModulus

\* C18: set-option changes neither the content of the queue nor the expiry of a
\* queued entry nor the entries the transport holds; at all times the expiry of
\* every queued entry is the one fixed by the default timeout in force at its own
\* send: 0 if that was 0, whatever the timeout was set to later.
C18_SetOptionKeepsQueuedExpiry ==
    [][/\ call'.op = "SetOption" =>
             /\ waitingToSend' = waitingToSend
             /\ inProgress' = inProgress
             /\ events' = events
       /\ \A i \in 1 .. Len(waitingToSend') :
             LET e == waitingToSend'[i] IN
             /\ e.ms_timesOutAfter = ExpiryAtSend(e.messageHandle)
             /\ sent'[e.messageHandle].due = 0 => e.ms_timesOutAfter = 0]_vars

\* the timeout was set to 0 with two entries queued: the first sent without
\* timeout before it was set to 1, the second sent with timeout 1 and still timed
C18_Witness ==
    /\ call.op = "SetOption"
    /\ call.value = <<0>>
    /\ currentMessageTimeout = 0
    /\ Len(waitingToSend) = 2
    /\ waitingToSend[1].ms_timesOutAfter = 0
    /\ sent[1].due = 0
    /\ waitingToSend[2].ms_timesOutAfter # 0
    /\ sent[2].due # 0

\* C19: deliver-inbound on a non-null instance stores what the time source gives
\* as the last-receive timestamp, over any previous value; with a receive
\* callback registered it invokes that callback once, with the message and the
\* stored context, and returns the disposition the callback returned; with none
\* registered it invokes nothing and returns abandoned.  The outbound queue, the
\* entries the transport holds and the completions are unchanged.
C19_DeliverInboundDispatches ==
    [][(call'.op = "MessageCallback" /\ call'.handle # NULL) =>
          /\ lastMessageReceiveTime' = (IF call'.timeOk THEN wallClock ELSE -1)
          /\ IF messageCallback # NULL
             THEN /\ call'.invoked = <<[callback |-> messageCallback,
                                        message |-> call'.message,
                                        context |-> messageUserContextCallback]>>
                  /\ call'.ret = call'.disposition
             ELSE /\ call'.invoked = <<>>
                  /\ call'.ret = "IOTHUBMESSAGE_ABANDONED"
          /\ UNCHANGED <<waitingToSend, inProgress, events, accepted, sent,
                         messageCallback, messageUserContextCallback>>]_vars

\* a second inbound message was delivered, later than the first, to a registered
\* callback that rejected it, while an outbound message was queued
C19_Witness ==
    /\ call.op = "MessageCallback"
    /\ call.handle # NULL
    /\ call.invoked = <<[callback |-> "messageCallback", message |-> "message",
                         context |-> "messageContext"]>>
    /\ call.ret = "IOTHUBMESSAGE_REJECTED"
    /\ lastMessageReceiveTime = MaxTime
    /\ wallClock = MaxTime
    /\ Len(waitingToSend) = 1

\* the step is a get-last-receive-time call with an instance and an output
GetLastStep ==
    /\ call'.op = "GetLastMessageReceiveTime"
    /\ call'.iotHubClientHandle # NULL
    /\ call'.lastMessageReceiveTime # NULL

\* the timestamps the instance stores, and the values two calls in a row return,
\* never decrease
ReceiveTimeNeverDecreases ==
    /\ (lastMessageReceiveTime # INDEFINITE_TIME
        /\ lastMessageReceiveTime' # INDEFINITE_TIME)
          => lastMessageReceiveTime' >= lastMessageReceiveTime
    /\ (/\ GetLastStep
        /\ call.op = "GetLastMessageReceiveTime"
        /\ call.written # <<>>
        /\ call'.written # <<>>) => call'.written[1] >= call.written[1]

\* C20 as stated: get-last-receive-time returns indefinite-time and writes nothing
\* before any deliver-inbound call; after any deliver-inbound call it returns ok
\* and writes the time of the most recent deliver-inbound call; the values
\* returned never decrease.
C20_ReturnsLastDeliveryTime ==
    [][/\ GetLastStep =>
             IF delivered = <<>>
             THEN /\ call'.ret = "IOTHUB_CLIENT_INDEFINITE_TIME"
                  /\ call'.written = <<>>
             ELSE /\ call'.ret = "IOTHUB_CLIENT_OK"
                  /\ call'.written = <<delivered[1].wallClock>>
       /\ ReceiveTimeNeverDecreases]_vars

\* C20 as amended: get-last-receive-time returns indefinite-time and writes
\* nothing before any deliver-inbound call, and also when the time source could
\* not give the time at the most recent deliver-inbound call; otherwise it
\* returns ok and writes the time of the most recent deliver-inbound call; the
\* values returned never decrease.
C20_ReturnsLastDeliveryTimeIfRead ==
    [][/\ GetLastStep =>
             IF delivered = <<>> \/ ~delivered[1].timeOk
             THEN /\ call'.ret = "IOTHUB_CLIENT_INDEFINITE_TIME"
                  /\ call'.written = <<>>
             ELSE /\ call'.ret = "IOTHUB_CLIENT_OK"
                  /\ call'.written = <<delivered[1].wallClock>>
       /\ ReceiveTimeNeverDecreases]_vars

\* after two deliveries, the second one second after the first, and one more
\* second, the call returned ok with the time of the second delivery
C20_Witness ==
    /\ call.op = "GetLastMessageReceiveTime"
    /\ call.ret = "IOTHUB_CLIENT_OK"
    /\ call.written = <<1>>
    /\ wallClock = 2
    /\ delivered = <<[timeOk |-> TRUE, wallClock |-> 1]>>

\* deliver-inbound on an instance without a registered callback invokes nothing
\* and returns abandoned
AbandonedWithoutCallback ==
    (call'.op = "MessageCallback" /\ call'.handle # NULL /\ messageCallback = NULL) =>
        /\ call'.invoked = <<>>
        /\ call'.ret = "IOTHUBMESSAGE_ABANDONED"

\* C21: set-message-callback with an instance and a non-null callback calls the
\* transport's subscribe, once and nothing else; when subscribe succeeds the
\* given callback and context are the registered pair, whatever pair was
\* registered, and the result is ok; when it fails the result is error and no
\* callback and no context are registered, whatever pair was registered, and a
\* deliver-inbound that finds none registered returns abandoned.
C21_SubscribeFailureClearsCallback ==
    [][/\ (/\ call'.op = "SetMessageCallback"
           /\ call'.iotHubClientHandle # NULL
           /\ call'.messageCallback # NULL) =>
             /\ call'.transportCall = "IoTHubTransport_Subscribe"
             /\ IF call'.transportReturned = 0
                THEN /\ call'.ret = "IOTHUB_CLIENT_OK"
                     /\ messageCallback' = call'.messageCallback
                     /\ messageUserContextCallback' = call'.userContextCallback
                ELSE /\ call'.ret = "IOTHUB_CLIENT_ERROR"
                     /\ messageCallback' = NULL
                     /\ messageUserContextCallback' = NULL
       /\ AbandonedWithoutCallback]_vars

\* subscribe failed in a call made while a pair from an earlier call was
\* registered, and nothing is registered now
C21_Witness ==
    /\ call.op = "SetMessageCallback"
    /\ call.messageCallback = "messageCallback2"
    /\ call.replaced = <<"messageCallback", "messageContext">>
    /\ call.ret = "IOTHUB_CLIENT_ERROR"
    /\ messageCallback = NULL
    /\ messageUserContextCallback = NULL

\* C22: set-message-callback with an instance and a null callback calls the
\* transport's unsubscribe, once and nothing else, leaves no callback and no
\* context registered and returns ok, however unsubscribe ended and whether or
\* not a callback was registered; a deliver-inbound that finds none registered
\* returns abandoned.  With a null instance it returns invalid-argument, calls
\* neither subscribe nor unsubscribe and changes nothing.
C22_NullCallbackUnsubscribes ==
    [][/\ (/\ call'.op = "SetMessageCallback"
           /\ call'.iotHubClientHandle # NULL
           /\ call'.messageCallback = NULL) =>
             /\ call'.transportCall = "IoTHubTransport_Unsubscribe"
             /\ call'.ret = "IOTHUB_CLIENT_OK"
             /\ messageCallback' = NULL
             /\ messageUserContextCallback' = NULL
       /\ (call'.op = "SetMessageCallback" /\ call'.iotHubClientHandle = NULL) =>
             /\ call'.ret = "IOTHUB_CLIENT_INVALID_ARG"
             /\ call'.transportCall = "-"
             /\ NoSideEffect
       /\ (call.op = "SetMessageCallback"
           /\ call.iotHubClientHandle # NULL
           /\ call.messageCallback = NULL) => messageCallback = NULL
       /\ AbandonedWithoutCallback]_vars

\* a registered pair was cleared by a call whose unsubscribe did not succeed
C22_Witness ==
    /\ call.op = "SetMessageCallback"
    /\ call.iotHubClientHandle # NULL
    /\ call.messageCallback = NULL
    /\ call.transportReturned # 0
    /\ call.replaced = <<"messageCallback", "messageContext">>
    /\ call.ret = "IOTHUB_CLIENT_OK"
    /\ messageCallback = NULL

\* message id was accepted with a timeout v > 0 and more than v milliseconds
\* have passed since its send-async call
Overdue(id) == sent[id].due > 0 /\ tick > sent[id].due

\* message id has been completed by a report of the transport
Reported(id) ==
    \/ Notified(events, id, "IOTHUB_CLIENT_CONFIRMATION_OK")
    \/ Notified(events, id, "IOTHUB_CLIENT_CONFIRMATION_ERROR")

C24_InitialState ==
    [][(call'.op \in {"Create", "CreateWithTransport"} /\ call'.ret # NULL) =>
          /\ handle' = "live"
          /\ waitingToSend' = <<>>
          /\ currentMessageTimeout' = 0
          /\ messageCallback' = NULL
          /\ messageUserContextCallback' = NULL
          /\ lastMessageReceiveTime' = INDEFINITE_TIME
          /\ isSharedTransport' = (call'.op = "CreateWithTransport")]_vars

\* create has returned an instance: it is live, owning, and in its initial state
C24_Witness ==
    /\ call.op = "Create"
    /\ call.ret # NULL
    /\ handle = "live"
    /\ ~isSharedTransport
    /\ waitingToSend = <<>>
    /\ currentMessageTimeout = 0
    /\ messageCallback = NULL
    /\ messageUserContextCallback = NULL
    /\ lastMessageReceiveTime = INDEFINITE_TIME

\* the kind of the i-th record of the log and the entry it is about
IsEvent(i, type, id) ==
    /\ i \in 1 .. Len(events)
    /\ events[i].type = type
    /\ events[i].entry = id

\* C25: on every removal path the steps for one entry are, in this order and
\* with nothing between them: the entry is unlinked from its list, its callback,
\* if it has one, is invoked, its message copy is released.  A callback therefore
\* runs after its entry has left the queue or batch and before the copy is
\* released, and an entry that was unlinked by the client is in no list.
C25_UnlinkThenCallbackThenRelease ==
    \A i \in 1 .. Len(events) :
        LET id == events[i].entry IN
        /\ events[i].type = "callback" =>
              /\ IsEvent(i - 1, "DList_Remove", id)
              /\ IsEvent(i + 1, "IoTHubMessage_Destroy", id)
        /\ events[i].type = "DList_Remove" =>
              /\ \/ IsEvent(i + 1, "IoTHubMessage_Destroy", id)
                 \/ IsEvent(i + 1, "callback", id)
              /\ sent[id].callback # NULL => IsEvent(i + 1, "callback", id)
              /\ Occurrences(waitingToSend, id) + Occurrences(inProgress, id) = 0
        /\ events[i].type = "IoTHubMessage_Destroy" =>
              \/ IsEvent(i - 1, "DList_Remove", id)
              \/ IsEvent(i - 1, "callback", id)

\* two messages with callbacks were removed, the first by a report of the
\* transport and the second by the drain of destroy, each in three steps
C25_Witness ==
    /\ handle = "destroyed"
    /\ accepted = 2
    /\ Len(events) = 6
    /\ IsEvent(1, "DList_Remove", 1)
    /\ IsEvent(2, "callback", 1)
    /\ events[2].result = "IOTHUB_CLIENT_CONFIRMATION_OK"
    /\ IsEvent(3, "IoTHubMessage_Destroy", 1)
    /\ IsEvent(4, "DList_Remove", 2)
    /\ IsEvent(5, "callback", 2)
    /\ events[5].result = "IOTHUB_CLIENT_CONFIRMATION_BECAUSE_DESTROY"
    /\ IsEvent(6, "IoTHubMessage_Destroy", 2)

\* the records of a piece of the log that are about entry id
EventsOf(log, id) == {i \in 1 .. Len(log) : log[i].entry = id}

C27_ExpiryNeverWraps ==
    [][/\ (call'.op = "SendEventAsync" /\ accepted' = accepted + 1
             /\ currentMessageTimeout > 0)
          => LET stored == waitingToSend'[Len(waitingToSend')].ms_timesOutAfter IN
             /\ stored # 0
             /\ stored >= tick
       /\ ScanStep =>
             \A i \in 1 .. Len(waitingToSend) :
                 LET id == waitingToSend[i].messageHandle IN
                 (sent[id].due > 0 /\ tick <= sent[id].due) =>
                     Occurrences(waitingToSend', id) = 1]_vars

\* the step is a timeout scan during which a callback called send-async, and
\* no callback of a queued entry drives the client
ScanWithNestedSend ==
    /\ call'.op = "DoWork"
    /\ accepted' > accepted
    /\ \A i \in 1 .. Len(waitingToSend) : waitingToSend[i].callback # "cbDrives"

\* what C28 says of one such scan: the entries the callbacks sent are at the
\* tail of the queue when the scan ends, in the order they were sent, and none
\* of them has been completed; of the entries queued when the scan began exactly
\* the expired are evicted, each completed once with status timeout and
\* released once, and the others stay, in their order
NestedSendsKept ==
    LET new == [k \in 1 .. accepted' - accepted |-> accepted + k]
        stays(e) == ~Expired(e, tick)
        gone(e) == Expired(e, tick)
    IN /\ Ids(waitingToSend') = Ids(SelectSeq(waitingToSend, stays)) \o new
       /\ \A k \in 1 .. Len(new) : EventsOf(AddedEvents, new[k]) = {}
       /\ CallbacksIn(AddedEvents) =
              OneCallbackEach(SelectSeq(waitingToSend, gone),
                              "IOTHUB_CLIENT_CONFIRMATION_MESSAGE_TIMEOUT")
       /\ DestroysIn(AddedEvents) = Ids(SelectSeq(waitingToSend, gone))

\* C28 as stated: when a callback invoked by the timeout scan calls send-async,
\* the new entry is at the tail of the queue when the scan ends, neither lost
\* nor completed, and the scan evicts exactly the expired ones of the entries
\* that were queued, each once.
C28_NestedSendSurvivesScan ==
    [][ScanWithNestedSend => NestedSendsKept]_vars

\* C29 as stated: whatever the callbacks invoked by the timeout scan do, the
\* scan reads no entry that has been freed, and every entry is completed and
\* released at most once.
C29_ScanStaysInLiveQueue ==
    /\ (call.op = "DoWork" /\ call.iotHubClientHandle # NULL) => call.freedReads = <<>>
    /\ \A id \in 1 .. accepted :
          /\ Cardinality(CallbacksOf(events, id)) <= 1
          /\ Cardinality(DestroysOf(events, id)) <= 1

\* the entries a step's callbacks sent, in the order they were accepted
NestedSends == [k \in 1 .. accepted' - accepted |-> accepted + k]

\* C30: destroy drains the entries its callbacks append as well.  When destroy
\* returns the queue is empty; every entry that was queued and every entry a
\* callback sent during the drain has been released once, in the order of the
\* queue, and has had its callback, if any, invoked once, with status destroyed
\* and before its release; none of them is with the transport.
C30_DestroyDrainsNestedSends ==
    [][(call'.op = "Destroy" /\ call'.iotHubClientHandle # NULL) =>
          LET drained == Ids(waitingToSend) \o NestedSends IN
          /\ waitingToSend' = <<>>
          /\ DestroysIn(AddedEvents) = drained
          /\ \A k \in 1 .. Len(drained) :
                LET id == drained[k] IN
                /\ Occurrences(inProgress', id) = 0
                /\ Cardinality(CallbacksOf(AddedEvents, id))
                      = IF sent'[id].callback # NULL THEN 1 ELSE 0
                /\ \A i \in CallbacksOf(AddedEvents, id) :
                      /\ AddedEvents[i].result = "IOTHUB_CLIENT_CONFIRMATION_BECAUSE_DESTROY"
                      /\ AddedEvents[i].context = sent'[id].context
                      /\ \A j \in DestroysOf(AddedEvents, id) : i < j]_vars

\* destroy found entry 1 queued; its callback sent entry 2 during the drain, and
\* entry 2 has had its callback with status destroyed and has been released
C30_Witness ==
    /\ handle = "destroyed"
    /\ call.op = "Destroy"
    /\ call.queued = <<1>>
    /\ accepted >= 2
    /\ sent[1].callback = "cbSends"
    /\ waitingToSend = <<>>
    /\ Notified(events, 2, "IOTHUB_CLIENT_CONFIRMATION_BECAUSE_DESTROY")
    /\ Cardinality(DestroysOf(events, 2)) = 1

====
